---- MODULE Spec2Model ----
(***************************************************************************)
(* Model of the Marisk site backend (src/server.js): the request           *)
(* dispatcher, the FAQ / gallery store with its JSON documents on disk,    *)
(* the session registry, the answer matcher and the locale cache.          *)
(*                                                                         *)
(* Strings are sequences of one-character strings, so that trimming,       *)
(* lower-casing, substring search, header splitting and JSON escaping are  *)
(* computed as the code computes them.                                     *)
(***************************************************************************)
EXTENDS Integers, Sequences, FiniteSets, Bags, TLC

(***************************************************************************)
(* Bounds of the model.                                                    *)
(***************************************************************************)
MaxFaqs == 2
MaxGallery == 2
MaxClock == 2
MaxLogins == 1
MaxInflight == 2
MaxFiles == 2

(***************************************************************************)
(* String primitives of the JavaScript runtime.                            *)
(***************************************************************************)
DQ == "\""
BS == "\\"
NL == "\n"
SP == " "

Range(f) == {f[x] : x \in DOMAIN f}
MinOf(S) == CHOOSE x \in S : \A y \in S : x <= y
MaxOf(S) == CHOOSE x \in S : \A y \in S : y <= x

\* String.prototype.trim
trim(s) ==
  LET keep == {i \in 1..Len(s) : s[i] # SP /\ s[i] # NL}
  IN  IF keep = {} THEN <<>> ELSE SubSeq(s, MinOf(keep), MaxOf(keep))

lowerChar(c) ==
  CASE c = "A" -> "a"
    [] c = "B" -> "b"
    [] c = "C" -> "c"
    [] OTHER   -> c

\* String.prototype.toLowerCase
toLowerCase(s) == [i \in 1..Len(s) |-> lowerChar(s[i])]

\* String.prototype.includes
includes(hay, needle) ==
  \E i \in 0..(Len(hay) - Len(needle)) : SubSeq(hay, i + 1, i + Len(needle)) = needle

\* String.prototype.startsWith
startsWith(s, p) == Len(p) <= Len(s) /\ SubSeq(s, 1, Len(p)) = p

\* String.prototype.split(' '): the pieces between single spaces
RECURSIVE splitSpace(_)
splitSpace(s) ==
  LET sp == {i \in 1..Len(s) : s[i] = SP}
  IN  IF sp = {} THEN <<s>>
      ELSE <<SubSeq(s, 1, MinOf(sp) - 1)>> \o splitSpace(SubSeq(s, MinOf(sp) + 1, Len(s)))

RECURSIVE Flatten(_)
Flatten(ss) == IF ss = <<>> THEN <<>> ELSE Head(ss) \o Flatten(Tail(ss))

(***************************************************************************)
(* JavaScript values as they come out of JSON.parse.                       *)
(***************************************************************************)
Undefined == [t |-> "undefined"]
Null == [t |-> "null"]
Str(s) == [t |-> "string", s |-> s]
Num(n) == [t |-> "number", n |-> n]

\* ToBoolean
truthy(v) ==
  CASE v.t = "undefined" -> FALSE
    [] v.t = "null"      -> FALSE
    [] v.t = "string"    -> v.s # <<>>
    [] v.t = "number"    -> v.n # 0
    [] OTHER             -> TRUE

(***************************************************************************)
(* JSON.stringify(list, null, 2) and JSON.parse for the FAQ document: an   *)
(* array of objects whose values are strings.                              *)
(***************************************************************************)
escapeChar(c) ==
  CASE c = DQ -> <<BS, DQ>>
    [] c = BS -> <<BS, BS>>
    [] c = NL -> <<BS, "n">>
    [] OTHER  -> <<c>>

\* Mutant of quote: the characters are copied without escapes
quoteRaw(s) == <<DQ>> \o s \o <<DQ>>

\* Quote of JSON.stringify: a string literal with its escapes
quote(s) == <<DQ>> \o Flatten([i \in 1..Len(s) |-> escapeChar(s[i])]) \o <<DQ>>

indent(n) == [i \in 1..n |-> SP]

\* One object of the FAQ document, at nesting depth 1
stringifyFaq(e) ==
  <<"{", NL>> \o indent(4) \o quote(<<"question">>) \o <<":", SP>> \o quote(e.question)
    \o <<",", NL>> \o indent(4) \o quote(<<"answer">>) \o <<":", SP>> \o quote(e.answer)
    \o <<NL>> \o indent(2) \o <<"}">>

RECURSIVE joinItems(_)
joinItems(items) ==
  IF items = <<>> THEN <<>>
  ELSE indent(2) \o Head(items)
         \o (IF Len(items) > 1 THEN <<",", NL>> ELSE <<NL>>)
         \o joinItems(Tail(items))

\* The array around its serialized items; "[]" for the empty array
stringifyArray(items) ==
  IF items = <<>> THEN <<"[", "]">> ELSE <<"[", NL>> \o joinItems(items) \o <<"]">>

stringifyFaqs(list) == stringifyArray([i \in 1..Len(list) |-> stringifyFaq(list[i])])

\* The backslashes that stand right before position i of text
backslashesBefore(text, i) ==
  i - 1 - MaxOf({k \in 0..(i - 1) : k = 0 \/ text[k] # BS})

\* The k-th smallest member of a set of numbers
nth(S, k) == CHOOSE x \in S : Cardinality({y \in S : y <= x}) = k

\* Mutant of unescape: the body of a string literal is taken as it is written
unescapeNone(body) == [ok |-> TRUE, s |-> body]

\* The characters a string literal's body stands for: a backslash that is not itself
\* escaped introduces the character after it
unescape(body) ==
  LET intro == {i \in 1..Len(body) : body[i] = BS /\ backslashesBefore(body, i) % 2 = 0}
      kept == (1..Len(body)) \ intro
  IN  [ok |-> \A i \in intro : i < Len(body) /\ body[i + 1] \in {DQ, BS, "n"},
       s |-> [k \in 1..Cardinality(kept) |->
                LET i == nth(kept, k)
                IN  IF (i - 1) \in intro /\ body[i] = "n" THEN NL ELSE body[i]]]

\* The lexer of JSON.parse: punctuation and string literals, white space skipped;
\* a "bad" token stands for a character no JSON text has there
RECURSIVE lex(_)
lex(text) ==
  LET ink == {i \in 1..Len(text) : text[i] \notin {SP, NL}}
      at == MinOf(ink)
      closing == {j \in (at + 1)..Len(text) :
                    text[j] = DQ /\ backslashesBefore(text, j) % 2 = 0}
      body == SubSeq(text, at + 1, MinOf(closing) - 1)
  IN  IF ink = {} THEN <<>>
      ELSE IF text[at] \in {"[", "]", "{", "}", ":", ","}
        THEN <<[k |-> "punct", c |-> text[at]]>> \o lex(SubSeq(text, at + 1, Len(text)))
      ELSE IF text[at] = DQ /\ closing # {} /\ NL \notin Range(body) /\ unescape(body).ok
        THEN <<[k |-> "string", s |-> unescape(body).s]>>
               \o lex(SubSeq(text, MinOf(closing) + 1, Len(text)))
      ELSE <<[k |-> "bad"]>>

isPunct(tok, c) == tok.k = "punct" /\ tok.c = c

\* The members "key": "value" of an object, up to its closing brace
RECURSIVE parseMembers(_, _)
parseMembers(toks, acc) ==
  IF /\ Len(toks) >= 4
     /\ toks[1].k = "string" /\ isPunct(toks[2], ":") /\ toks[3].k = "string"
  THEN LET obj == Append(acc, <<toks[1].s, toks[3].s>>)
       IN  IF isPunct(toks[4], ",") THEN parseMembers(SubSeq(toks, 5, Len(toks)), obj)
           ELSE IF isPunct(toks[4], "}")
             THEN [ok |-> TRUE, value |-> obj, rest |-> SubSeq(toks, 5, Len(toks))]
           ELSE [ok |-> FALSE]
  ELSE [ok |-> FALSE]

\* The items of an array of objects, up to its closing bracket at the end of the text
RECURSIVE parseItems(_, _)
parseItems(toks, acc) ==
  IF toks = <<>> \/ ~isPunct(toks[1], "{") THEN [ok |-> FALSE]
  ELSE LET r == parseMembers(Tail(toks), <<>>)
       IN  IF ~r.ok THEN [ok |-> FALSE]
           ELSE IF r.rest # <<>> /\ isPunct(r.rest[1], ",")
             THEN parseItems(Tail(r.rest), Append(acc, r.value))
           ELSE IF Len(r.rest) = 1 /\ isPunct(r.rest[1], "]")
             THEN [ok |-> TRUE, value |-> Append(acc, r.value)]
           ELSE [ok |-> FALSE]

\* JSON.parse of a document holding an array of objects with string members, each
\* object a sequence of <<key, value>> pairs; [ok |-> FALSE] is the SyntaxError
parseArray(text) ==
  LET toks == lex(text)
  IN  IF toks = <<>> \/ ~isPunct(toks[1], "[") THEN [ok |-> FALSE]
      ELSE IF Len(toks) = 2 /\ isPunct(toks[2], "]") THEN [ok |-> TRUE, value |-> <<>>]
      ELSE parseItems(Tail(toks), <<>>)

\* Property lookup obj[key] on a parsed object (the last member of that name wins)
member(obj, key) ==
  LET at == {i \in 1..Len(obj) : obj[i][1] = <<key>>}
  IN  obj[MaxOf(at)][2]

faqOf(obj) == [question |-> member(obj, "question"), answer |-> member(obj, "answer")]

(***************************************************************************)
(* State of the server process and of the files it reads and writes.       *)
(***************************************************************************)
VARIABLES
  phase,        \* "boot" until loadData has run, then "serving"
  now,          \* Date.now(), in milliseconds
  faqs,         \* the in-memory FAQ list
  gallery,      \* the in-memory gallery list
  faqsFile,     \* data/faqs.json: [exists, data]
  galleryFile,  \* data/gallery.json: [exists, data]
  imgFiles,     \* names of the files under public/assets/img
  sessions,     \* own properties of the sessions object: token -> session
  inherited,    \* the objects sessions[key] finds on Object.prototype
  localesCache, \* own properties of localesCache: lang -> mapping
  localeFiles,  \* data/locales/<lang>.json: lang -> [state, map]
  inflight,     \* bag of the suspended handlers
  indices,      \* the Set of the running suggestions loop, in insertion order
  hist,         \* history: tokens issued, when each was issued or last accepted,
                \* the list loaded at startup, the add-faq requests accepted since,
                \* the documents of which a write has failed
  localStorage, \* the admin console's localStorage item 'adminToken'
  ev            \* what the last step did: the request it served and its response

vars == <<phase, now, faqs, gallery, faqsFile, galleryFile, imgFiles, sessions,
          inherited, localesCache, localeFiles, inflight, indices, hist, localStorage, ev>>

storeVars == <<faqs, gallery, faqsFile, galleryFile, imgFiles>>
authVars == <<sessions, inherited>>
localeVars == <<localesCache, localeFiles>>

\* 24 * 60 * 60 * 1000
SessionTTL == 24 * 60 * 60 * 1000

NoFile == [exists |-> FALSE, data |-> <<>>]
File(data) == [exists |-> TRUE, data |-> data]

\* fs.writeFileSync(path, data): it returns, or fails at open (the file is left as it
\* was), or fails while writing (the file was truncated by the open)
WriteOutcomes == {"ok", "fail-open", "fail-write"}

\* Mutant of writeFileSync: the data are appended to the file (flag 'a')
writeFileSyncAppend(file, data, outcome) ==
  CASE outcome = "ok"         -> File(file.data \o data)
    [] outcome = "fail-open"  -> file
    [] outcome = "fail-write" -> file

\* Mutant of writeFileSync: the call returns at once and the data are written later
writeFileSyncDeferred(file, data, outcome) == file

writeFileSync(file, data, outcome) ==
  CASE outcome = "ok"         -> File(data)
    [] outcome = "fail-open"  -> file
    [] outcome = "fail-write" -> File(<<>>)

(***************************************************************************)
(* loadData                                                                *)
(***************************************************************************)
\* JSON.parse(fs.readFileSync(faqsPath)) inside try / catch
loadFaqs(file) ==
  LET r == parseArray(file.data)
  IN  IF file.exists /\ r.ok THEN [i \in 1..Len(r.value) |-> faqOf(r.value[i])] ELSE <<>>

(***************************************************************************)
(* Requests                                                                *)
(***************************************************************************)
EmptyObject == [t |-> "object", f |-> <<>>]
Object(fields) == [t |-> "object", f |-> fields]

\* body.key, for a body that is not null
prop(v, key) == IF v.t = "object" /\ key \in DOMAIN v.f THEN v.f[key] ELSE Undefined

ContentJson == <<"application/json">>
ContentText == <<"text/plain">>

\* The 'end' callback of parseBody: the object handed to the handler
parseBody(req) ==
  IF includes(req.ctype, ContentJson)
  THEN CASE req.body.k = "empty"     -> EmptyObject
         [] req.body.k = "malformed" -> EmptyObject
         [] req.body.k = "json"      -> req.body.v
  ELSE EmptyObject

JsonReq(v) == [ctype |-> ContentJson, body |-> [k |-> "json", v |-> v]]
EmptyReq == [ctype |-> ContentJson, body |-> [k |-> "empty"]]
MalformedReq == [ctype |-> ContentJson, body |-> [k |-> "malformed"]]
TextReq(v) == [ctype |-> ContentText, body |-> [k |-> "json", v |-> v]]

(***************************************************************************)
(* Session registry                                                        *)
(***************************************************************************)
Bearer(token) == <<"Bearer", SP>> \o token

\* Property names every object inherits from Object.prototype
ProtoKeys == {<<"constructor">>}

\* sessions[token]: an own property, else an inherited one, else undefined
lookupSession(reg, inh, token) ==
  IF token \in DOMAIN reg THEN [found |-> TRUE, own |-> TRUE, session |-> reg[token]]
  ELSE IF token \in ProtoKeys THEN [found |-> TRUE, own |-> FALSE, session |-> inh[token]]
  ELSE [found |-> FALSE]

\* Mutant of isExpired: a session already expires at exactly 24 hours
isExpiredAtLimit(session, t) ==
  session.timestamp.t = "number" /\ t - session.timestamp.n >= SessionTTL

\* now - session.timestamp > 24h; the difference is NaN, and the comparison false,
\* for an object that has no timestamp
isExpired(session, t) ==
  session.timestamp.t = "number" /\ t - session.timestamp.n > SessionTTL

EmptyMap == [x \in {} |-> x]
dropKey(f, k) == [x \in DOMAIN f \ {k} |-> f[x]]
putKey(f, k, v) == [x \in DOMAIN f \cup {k} |-> IF x = k THEN v ELSE f[x]]

\* isAuthenticated(req) at time t: its result and the registry it leaves
isAuthenticated(auth, reg, inh, t) ==
  LET deny == [ok |-> FALSE, sessions |-> reg, inherited |-> inh]
  IN  IF ~truthy(auth) THEN deny
      ELSE LET parts == splitSpace(auth.s)
           IN  IF Len(parts) # 2 \/ parts[1] # <<"Bearer">> THEN deny
               ELSE LET token == parts[2]
                        hit == lookupSession(reg, inh, token)
                    IN  IF ~hit.found THEN deny
                        ELSE IF isExpired(hit.session, t)
                          THEN [ok |-> FALSE, inherited |-> inh,
                                sessions |-> IF hit.own THEN dropKey(reg, token) ELSE reg]
                        ELSE IF hit.own
                          THEN [ok |-> TRUE, inherited |-> inh,
                                sessions |-> putKey(reg, token, [timestamp |-> Num(t)])]
                        ELSE [ok |-> TRUE, sessions |-> reg,
                              inherited |-> putKey(inh, token, [timestamp |-> Num(t)])]

(***************************************************************************)
(* Answer matcher and locales                                              *)
(***************************************************************************)
\* Array.prototype.find: the first element satisfying the test, as a set of indices
firstOf(S) == IF S = {} THEN 0 ELSE MinOf(S)

\* Mutant of findExact: the stored question is compared as it is written
findExactCaseSensitive(list, lower) ==
  firstOf({i \in 1..Len(list) : list[i].question = lower})

\* faqs.find(faq => faq.question.toLowerCase() === lower)
findExact(list, lower) ==
  firstOf({i \in 1..Len(list) : toLowerCase(list[i].question) = lower})

\* Mutant of findPartial: only an input that contains the stored question matches
findPartialOneWay(list, lower) ==
  firstOf({i \in 1..Len(list) : includes(lower, toLowerCase(list[i].question))})

\* faqs.find(faq => lower.includes(q) || q.includes(lower)), q the lower-cased question
findPartial(list, lower) ==
  firstOf({i \in 1..Len(list) :
             \/ includes(lower, toLowerCase(list[i].question))
             \/ includes(toLowerCase(list[i].question), lower)})

\* The answer the chat handler has after matching: a string, or null
matchAnswer(list, question) ==
  IF question = <<>> THEN Null
  ELSE LET lower == toLowerCase(question)
           match == findExact(list, lower)
           partial == findPartial(list, lower)
       IN  IF match # 0 THEN Str(list[match].answer)
           ELSE IF partial # 0 THEN Str(list[partial].answer)
           ELSE Null

DefaultAnswer == <<"Sorry, I don't know the answer.">>

\* localeObj['chat_no_answer'] || 'Sorry, I don\'t know the answer.'
fallbackAnswer(localeObj) ==
  IF truthy(prop(localeObj, "chat_no_answer")) THEN prop(localeObj, "chat_no_answer")
  ELSE Str(DefaultAnswer)

En == <<"en">>

\* Mutant of cachedLocale: the cache is never consulted
cachedLocaleNever(cache, lang) == [hit |-> FALSE]

\* localesCache[lang], when truthy: an own property, or one inherited from
\* Object.prototype (an object without translation keys)
cachedLocale(cache, lang) ==
  IF lang \in DOMAIN cache THEN [hit |-> TRUE, value |-> cache[lang]]
  ELSE IF lang \in ProtoKeys THEN [hit |-> TRUE, value |-> EmptyObject]
  ELSE [hit |-> FALSE]

\* The file data/locales/<lang>.json as fs.readFile and JSON.parse see it
MissingLocale == [state |-> "missing"]
CorruptLocale == [state |-> "corrupt"]
LocaleDoc(map) == [state |-> "ok", map |-> map]
\* Mutant of readLocale: the English document is read whatever the language
readLocaleEnglish(files, lang) == IF En \in DOMAIN files THEN files[En] ELSE MissingLocale

readLocale(files, lang) == IF lang \in DOMAIN files THEN files[lang] ELSE MissingLocale

(***************************************************************************)
(* Image ingestion and the gallery document                                *)
(***************************************************************************)
DataImagePrefix == <<"d", "a", "t", "a", ":", "i", "m", "a", "g", "e", "/">>
Base64Marker == <<";", "b", "a", "s", "e", "6", "4", ",">>
PngChars == <<"p", "n", "g">>
JpegChars == <<"j", "p", "e", "g">>
JpgChars == <<"j", "p", "g">>
GifChars == <<"g", "i", "f">>

\* The text of a data URI
DataUri(mime, payload) == DataImagePrefix \o mime \o Base64Marker \o payload

\* The characters the "." of a regular expression does not match
LineTerminators == {NL, "\r"}

\* Mutant of matchDataUri: the pattern without its alternative "jpeg"
matchDataUriPngOnly(v) ==
  LET head == DataImagePrefix \o PngChars \o Base64Marker
  IN  IF /\ v.t = "string"
         /\ startsWith(v.s, head)
         /\ Len(v.s) > Len(head)
         /\ \A i \in (Len(head) + 1)..Len(v.s) : v.s[i] \notin LineTerminators
      THEN [ok |-> TRUE, mime |-> PngChars, payload |-> SubSeq(v.s, Len(head) + 1, Len(v.s))]
      ELSE [ok |-> FALSE]

\* /^data:image\/(png|jpeg);base64,(.+)$/.exec(dataUri): the groups, if it matches.
\* A value that is no string is matched as its text, which never has this form
matchDataUri(v) ==
  LET head(mime) == DataImagePrefix \o mime \o Base64Marker
      found == {mime \in {PngChars, JpegChars} :
                  /\ v.t = "string"
                  /\ startsWith(v.s, head(mime))
                  /\ Len(v.s) > Len(head(mime))
                  /\ \A i \in (Len(head(mime)) + 1)..Len(v.s) : v.s[i] \notin LineTerminators}
      mime == CHOOSE m \in found : TRUE
  IN  IF found # {}
        THEN [ok |-> TRUE, mime |-> mime,
              payload |-> SubSeq(v.s, Len(head(mime)) + 1, Len(v.s))]
      ELSE [ok |-> FALSE]

\* match[1] === 'jpeg' ? 'jpg' : match[1]
extOf(mime) == IF mime = JpegChars THEN JpgChars ELSE mime

\* `${prefix}-${Date.now()}-${crypto.randomBytes(4).toString('hex')}.${ext}`: the
\* prefix and the time are one symbol each, the rest characters
fileName(prefix, t, hex, ext) == <<prefix, "-", ToString(t), "-">> \o hex \o <<".">> \o ext

ImgDir == <<"assets/img/">>

\* Mutant of saveImage: the path is made up and returned, the file is not written
saveImageUnwritten(v, prefix, t, hex, outcome) ==
  LET m == matchDataUri(v)
      name == fileName(prefix, t, hex, extOf(m.mime))
  IN  IF ~m.ok THEN [r |-> "null", files |-> {}]
      ELSE IF outcome = "ok" THEN [r |-> "path", path |-> ImgDir \o name, files |-> {}]
      ELSE [r |-> "throw", files |-> {}]

\* Mutant of saveImage: a failed write is logged and the path returned all the same
saveImageSwallow(v, prefix, t, hex, outcome) ==
  LET m == matchDataUri(v)
      name == fileName(prefix, t, hex, extOf(m.mime))
  IN  IF ~m.ok THEN [r |-> "null", files |-> {}]
      ELSE IF outcome = "ok" THEN [r |-> "path", path |-> ImgDir \o name, files |-> {name}]
      ELSE IF outcome = "fail-write" THEN [r |-> "path", path |-> ImgDir \o name, files |-> {name}]
      ELSE [r |-> "path", path |-> ImgDir \o name, files |-> {}]

\* saveImage(dataUri, prefix): null, or a file written and its path, or the
\* exception of fs.writeFileSync
saveImage(v, prefix, t, hex, outcome) ==
  LET m == matchDataUri(v)
      name == fileName(prefix, t, hex, extOf(m.mime))
  IN  IF ~m.ok THEN [r |-> "null", files |-> {}]
      ELSE IF outcome = "ok" THEN [r |-> "path", path |-> ImgDir \o name, files |-> {name}]
      ELSE IF outcome = "fail-write" THEN [r |-> "throw", files |-> {name}]
      ELSE [r |-> "throw", files |-> {}]

\* x || ''
orEmpty(v) == IF truthy(v) THEN v ELSE Str(<<>>)

\* One object of the gallery document; title and description are strings here
stringifyEntry(e) ==
  <<"{", NL>> \o indent(4) \o quote(<<"before">>) \o <<":", SP>> \o quote(e.before)
    \o <<",", NL>> \o indent(4) \o quote(<<"after">>) \o <<":", SP>> \o quote(e.after)
    \o <<",", NL>> \o indent(4) \o quote(<<"title">>) \o <<":", SP>> \o quote(e.title.s)
    \o <<",", NL>> \o indent(4) \o quote(<<"description">>) \o <<":", SP>>
    \o quote(e.description.s) \o <<NL>> \o indent(2) \o <<"}">>

stringifyGallery(list) ==
  stringifyArray([i \in 1..Len(list) |-> stringifyEntry(list[i])])

entryOf(obj) ==
  [before |-> member(obj, "before"), after |-> member(obj, "after"),
   title |-> Str(member(obj, "title")), description |-> Str(member(obj, "description"))]

loadGallery(file) ==
  LET r == parseArray(file.data)
  IN  IF file.exists /\ r.ok THEN [i \in 1..Len(r.value) |-> entryOf(r.value[i])] ELSE <<>>

(***************************************************************************)
(* Actions: one per handler segment between two suspension points.         *)
(***************************************************************************)
Suspended(c) == SetToBag({c})
AwaitBody(route) == [k |-> "body", route |-> route]
AwaitRead(lang, for, req) == [k |-> "read", lang |-> lang, for |-> for, req |-> req]

\* The event loop is free: loadData has run and no synchronous loop is running
Serving == phase = "serving" /\ ~indices.on
CanSuspend == BagCardinality(inflight) < MaxInflight

\* loadData(), run once when the module is loaded
LoadData ==
  /\ phase = "boot"
  /\ phase' = "serving"
  /\ faqs' = loadFaqs(faqsFile)
  /\ gallery' = loadGallery(galleryFile)
  /\ hist' = [hist EXCEPT !.loaded = loadFaqs(faqsFile)]
  /\ ev' = [op |-> "boot"]
  /\ UNCHANGED <<now, faqsFile, galleryFile, imgFiles, authVars, localStorage, localeVars, inflight, indices>>

\* The wall clock advances by d milliseconds
Tick(d) ==
  /\ phase = "serving"
  /\ (now + d) % SessionTTL <= 1
  /\ (now + d) \div SessionTTL <= MaxClock
  /\ now' = now + d
  /\ ev' = [op |-> "tick"]
  /\ UNCHANGED <<phase, storeVars, authVars, localStorage, localeVars, inflight, indices, hist>>

\* POST /api/chat or /api/admin/login arrives: the handler awaits parseBody
Arrive(route) ==
  /\ Serving /\ CanSuspend
  /\ inflight' = inflight (+) Suspended(AwaitBody(route))
  /\ ev' = [op |-> "arrive", route |-> route]
  /\ UNCHANGED <<phase, now, storeVars, authVars, localStorage, localeVars, indices, hist>>

\* POST /api/admin/add-faq or /api/admin/upload-image arrives with the given
\* Authorization header: isAuthenticated, then 403 or await parseBody
AdminArrive(route, auth) ==
  LET r == isAuthenticated(auth, sessions, inherited, now)
  IN  /\ Serving
      /\ r.ok => CanSuspend
      /\ sessions' = r.sessions
      /\ inherited' = r.inherited
      /\ inflight' = IF r.ok THEN inflight (+) Suspended(AwaitBody(route)) ELSE inflight
      /\ ev' = [op |-> "auth", route |-> route, auth |-> auth,
                status |-> IF r.ok THEN 0 ELSE 403,
                elapsed |-> {now - hist.lastOk[tok] :
                               tok \in {x \in DOMAIN hist.lastOk : auth = Str(Bearer(x))}}]
      /\ hist' = [hist EXCEPT !.lastOk =
                     [tok \in DOMAIN @ |->
                        IF r.ok /\ auth = Str(Bearer(tok)) THEN now ELSE @[tok]]]
      /\ UNCHANGED <<phase, now, storeVars, localStorage, localeVars, indices>>

\* The body passes 20MB: req.connection.destroy(), 'end' is never emitted and the
\* handler never resumes
BodyDestroyed(route) ==
  /\ Serving
  /\ BagIn(AwaitBody(route), inflight)
  /\ inflight' = inflight (-) Suspended(AwaitBody(route))
  /\ ev' = [op |-> "destroy", route |-> route]
  /\ UNCHANGED <<phase, now, storeVars, authVars, localStorage, localeVars, indices, hist>>

\* crypto.randomBytes(16).toString('hex'): a token not issued before
TokenOf(i) == <<"t", ToString(i)>>
freshToken(issued) == TokenOf(Cardinality(issued) + 1)

AdminUser == <<"admin">>
AdminPassword == <<"admin">>

\* username === 'admin' && password === 'admin'
credentialsOk(b) == prop(b, "username") = Str(AdminUser) /\ prop(b, "password") = Str(AdminPassword)

\* Mutant of LoginEnd: the handler without its try/catch, so that the TypeError of
\* destructuring null is an unhandled rejection that ends the process
LoginEndUncaught(req) ==
  LET b == parseBody(req)
      token == freshToken(hist.issued)
  IN  /\ Serving
      /\ BagIn(AwaitBody("login"), inflight)
      /\ inflight' = inflight (-) Suspended(AwaitBody("login"))
      /\ IF b.t = "null"
           THEN /\ ev' = [op |-> "login", req |-> req, status |-> 0]
                /\ phase' = "down"
                /\ UNCHANGED <<sessions, hist>>
         ELSE IF credentialsOk(b)
           THEN /\ Cardinality(hist.issued) < MaxLogins
                /\ sessions' = putKey(sessions, token, [timestamp |-> Num(now)])
                /\ hist' = [hist EXCEPT !.issued = @ \cup {token},
                                         !.lastOk = putKey(@, token, now)]
                /\ ev' = [op |-> "login", req |-> req, status |-> 200, token |-> token]
                /\ UNCHANGED phase
         ELSE /\ ev' = [op |-> "login", req |-> req, status |-> 401]
              /\ UNCHANGED <<phase, sessions, hist>>
      /\ UNCHANGED <<now, storeVars, inherited, localStorage, localeVars, indices>>

\* POST /api/admin/login once its body has arrived
LoginEnd(req) ==
  LET b == parseBody(req)
      token == freshToken(hist.issued)
  IN  /\ Serving
      /\ BagIn(AwaitBody("login"), inflight)
      /\ inflight' = inflight (-) Suspended(AwaitBody("login"))
      /\ IF b.t = "null"
           THEN /\ ev' = [op |-> "login", req |-> req, status |-> 500]
                /\ UNCHANGED <<sessions, hist>>
         ELSE IF credentialsOk(b)
           THEN /\ Cardinality(hist.issued) < MaxLogins
                /\ sessions' = putKey(sessions, token, [timestamp |-> Num(now)])
                /\ hist' = [hist EXCEPT !.issued = @ \cup {token},
                                         !.lastOk = putKey(@, token, now)]
                /\ ev' = [op |-> "login", req |-> req, status |-> 200, token |-> token]
         ELSE /\ ev' = [op |-> "login", req |-> req, status |-> 401]
              /\ UNCHANGED <<sessions, hist>>
      /\ UNCHANGED <<phase, now, storeVars, inherited, localStorage, localeVars, indices>>

\* typeof question === 'string' && typeof answer === 'string' && question.trim() && answer.trim()
validFaq(b) ==
  /\ prop(b, "question").t = "string"
  /\ prop(b, "answer").t = "string"
  /\ trim(prop(b, "question").s) # <<>>
  /\ trim(prop(b, "answer").s) # <<>>

\* Mutant of pushFaq: the entry takes the place of the last one
pushFaqOverLast(list, b) ==
  SubSeq(list, 1, Len(list) - 1) \o
    <<[question |-> trim(prop(b, "question").s), answer |-> trim(prop(b, "answer").s)]>>

\* faqs.push({ question: question.trim(), answer: answer.trim() })
pushFaq(list, b) ==
  Append(list, [question |-> trim(prop(b, "question").s), answer |-> trim(prop(b, "answer").s)])

\* Mutant of AddFaqEnd: the entry is taken off the list again when the write fails
AddFaqEndRollBack(req, outcome) ==
  LET b == parseBody(req)
  IN  /\ Serving
      /\ BagIn(AwaitBody("add-faq"), inflight)
      /\ inflight' = inflight (-) Suspended(AwaitBody("add-faq"))
      /\ IF b.t = "null"
           THEN /\ ev' = [op |-> "add-faq", req |-> req, status |-> 500, write |-> "none"]
                /\ UNCHANGED <<faqs, faqsFile, hist>>
         ELSE IF validFaq(b)
           THEN /\ Len(faqs) < MaxFaqs
                /\ faqs' = IF outcome = "ok" THEN pushFaq(faqs, b) ELSE faqs
                /\ faqsFile' = writeFileSync(faqsFile, stringifyFaqs(pushFaq(faqs, b)), outcome)
                /\ hist' = [hist EXCEPT !.added = IF outcome = "ok" THEN Append(@, req) ELSE @,
                                         !.failed = IF outcome = "ok" THEN @
                                                    ELSE @ \cup {"faqs"}]
                /\ ev' = [op |-> "add-faq", req |-> req, status |-> 200, write |-> outcome]
         ELSE /\ ev' = [op |-> "add-faq", req |-> req, status |-> 400, write |-> "none"]
              /\ UNCHANGED <<faqs, faqsFile, hist>>
      /\ UNCHANGED <<phase, now, gallery, galleryFile, imgFiles, authVars, localStorage, localeVars, indices>>

\* POST /api/admin/add-faq once its body has arrived; outcome is that of the write
AddFaqEnd(req, outcome) ==
  LET b == parseBody(req)
  IN  /\ Serving
      /\ BagIn(AwaitBody("add-faq"), inflight)
      /\ inflight' = inflight (-) Suspended(AwaitBody("add-faq"))
      /\ IF b.t = "null"
           THEN /\ ev' = [op |-> "add-faq", req |-> req, status |-> 500, write |-> "none"]
                /\ UNCHANGED <<faqs, faqsFile, hist>>
         ELSE IF validFaq(b)
           THEN /\ Len(faqs) < MaxFaqs
                /\ faqs' = pushFaq(faqs, b)
                /\ faqsFile' = writeFileSync(faqsFile, stringifyFaqs(faqs'), outcome)
                /\ hist' = [hist EXCEPT !.added = Append(@, req),
                                         !.failed = IF outcome = "ok" THEN @
                                                    ELSE @ \cup {"faqs"}]
                /\ ev' = [op |-> "add-faq", req |-> req, status |-> 200, write |-> outcome]
         ELSE /\ ev' = [op |-> "add-faq", req |-> req, status |-> 400, write |-> "none"]
              /\ UNCHANGED <<faqs, faqsFile, hist>>
      /\ UNCHANGED <<phase, now, gallery, galleryFile, imgFiles, authVars, localStorage, localeVars, indices>>

\* The hex strings crypto.randomBytes(4) can give
HexC0ffee == <<"0", "0", "c", "0", "f", "f", "e", "e">>
HexCafe == <<"0", "b", "a", "d", "c", "a", "f", "e">>
RandomHex == {HexC0ffee, HexCafe}

\* POST /api/admin/upload-image once its body has arrived. hexB, hexA are the random
\* suffixes drawn for the two files; oB, oA, oG the outcomes of the three writes
UploadEnd(req, hexB, hexA, oB, oA, oG) ==
  LET b == parseBody(req)
      before == saveImage(prop(b, "before"), "before", now, hexB, oB)
      after == saveImage(prop(b, "after"), "after", now, hexA, oA)
      newEntry == [before |-> before.path, after |-> after.path,
                   title |-> orEmpty(prop(b, "title")),
                   description |-> orEmpty(prop(b, "description"))]
      reply(status, error, saved) ==
        ev' = [op |-> "upload", req |-> req, status |-> status, error |-> error,
               saved |-> saved, write |-> "none"]
  IN  /\ Serving
      /\ BagIn(AwaitBody("upload-image"), inflight)
      /\ inflight' = inflight (-) Suspended(AwaitBody("upload-image"))
      /\ IF b.t = "null"
           THEN /\ reply(500, "Internal Server Error", <<>>)
                /\ UNCHANGED <<gallery, galleryFile, imgFiles, hist>>
         ELSE IF ~truthy(prop(b, "before")) \/ ~truthy(prop(b, "after"))
           THEN /\ reply(400, "Missing images", <<>>)
                /\ UNCHANGED <<gallery, galleryFile, imgFiles, hist>>
         ELSE IF before.r = "throw"
           THEN /\ reply(500, "Failed to save images", <<before>>)
                /\ imgFiles' = imgFiles \cup before.files
                /\ UNCHANGED <<gallery, galleryFile, hist>>
         ELSE IF after.r = "throw"
           THEN /\ reply(500, "Failed to save images", <<before, after>>)
                /\ imgFiles' = imgFiles \cup before.files \cup after.files
                /\ UNCHANGED <<gallery, galleryFile, hist>>
         ELSE IF before.r = "null" \/ after.r = "null"
           THEN /\ reply(400, "Invalid image data", <<before, after>>)
                /\ imgFiles' = imgFiles \cup before.files \cup after.files
                /\ UNCHANGED <<gallery, galleryFile, hist>>
         ELSE /\ Len(gallery) < MaxGallery
              /\ imgFiles' = imgFiles \cup before.files \cup after.files
              /\ gallery' = Append(gallery, newEntry)
              /\ galleryFile' = writeFileSync(galleryFile, stringifyGallery(gallery'), oG)
              /\ hist' = [hist EXCEPT !.failed = IF oG = "ok" THEN @ ELSE @ \cup {"gallery"}]
              /\ IF oG = "ok"
                   THEN ev' = [op |-> "upload", req |-> req, status |-> 200,
                               saved |-> <<before, after>>, write |-> oG,
                               entry |-> newEntry]
                 ELSE ev' = [op |-> "upload", req |-> req, status |-> 500,
                             error |-> "Failed to save images",
                             saved |-> <<before, after>>, write |-> oG]
      /\ Cardinality(imgFiles') <= MaxFiles
      /\ UNCHANGED <<phase, now, faqs, faqsFile, authVars, localStorage, localeVars, indices>>

\* The response of the handler that awaited getLocale, for the request req
respond(for, req, step, localeObj) ==
  IF for = "chat"
    THEN [op |-> "chat", step |-> step, req |-> req, status |-> 200, matched |-> FALSE,
          locale |-> localeObj, answer |-> fallbackAnswer(localeObj)]
  ELSE [op |-> "locales", step |-> step, req |-> req, status |-> 200, out |-> localeObj]

\* await getLocale(lang) in the handler of req: resolved from the cache at once, or
\* the handler is suspended on fs.readFile
GetLocale(lang, for, req, step, pending) ==
  LET c == cachedLocale(localesCache, lang)
  IN  IF c.hit
        THEN /\ inflight' = pending
             /\ ev' = respond(for, req, step, c.value)
      ELSE /\ inflight' = pending (+) Suspended(AwaitRead(lang, for, req))
           /\ ev' = [op |-> for, step |-> step, req |-> req, status |-> 0]

\* POST /api/chat once its body has arrived
ChatEnd(req) ==
  LET b == parseBody(req)
      q == orEmpty(prop(b, "question"))
      l == IF truthy(prop(b, "lang")) THEN prop(b, "lang") ELSE Str(En)
      answer == matchAnswer(faqs, trim(q.s))
      pending == inflight (-) Suspended(AwaitBody("chat"))
  IN  /\ Serving
      /\ BagIn(AwaitBody("chat"), inflight)
      /\ IF b.t = "null" \/ q.t # "string" \/ l.t # "string"
           THEN /\ inflight' = pending
                /\ ev' = [op |-> "chat", step |-> "end", req |-> req, status |-> 500]
         ELSE IF truthy(answer)
           THEN /\ inflight' = pending
                /\ ev' = [op |-> "chat", step |-> "end", req |-> req, status |-> 200,
                          matched |-> TRUE, answer |-> answer]
         ELSE GetLocale(trim(l.s), "chat", req, "end", pending)
      /\ UNCHANGED <<phase, now, storeVars, authVars, localStorage, localeVars, indices, hist>>

\* GET /api/locales/<lang>
LocalesGet(lang) ==
  /\ Serving
  /\ ~cachedLocale(localesCache, lang).hit => CanSuspend
  /\ GetLocale(lang, "locales", lang, "end", inflight)
  /\ UNCHANGED <<phase, now, storeVars, authVars, localStorage, localeVars, indices, hist>>

\* The callback of fs.readFile in getLocale(c.lang)
ReadDone(c) ==
  LET file == readLocale(localeFiles, c.lang)
      pending == inflight (-) Suspended(c)
  IN  /\ Serving
      /\ c.k = "read"
      /\ BagIn(c, inflight)
      /\ IF file.state = "missing"
           THEN /\ UNCHANGED localesCache
                /\ IF c.lang # En
                     THEN GetLocale(En, c.for, c.req, "read", pending)
                   ELSE /\ inflight' = pending
                        /\ ev' = respond(c.for, c.req, "read", EmptyObject)
         ELSE IF file.state = "corrupt"
           THEN /\ UNCHANGED localesCache
                /\ inflight' = pending
                /\ ev' = respond(c.for, c.req, "read", EmptyObject)
         ELSE /\ localesCache' = putKey(localesCache, c.lang, file.map)
              /\ inflight' = pending
              /\ ev' = respond(c.for, c.req, "read", file.map)
      /\ UNCHANGED <<phase, now, storeVars, authVars, localStorage, localeFiles, indices, hist>>

\* GET /api/faqs
FaqsGet ==
  /\ Serving
  /\ ev' = [op |-> "faqs", status |-> 200, out |-> faqs]
  /\ UNCHANGED <<phase, now, storeVars, authVars, localStorage, localeVars, inflight, indices, hist>>

\* GET /api/gallery
GalleryGet ==
  /\ Serving
  /\ ev' = [op |-> "gallery", status |-> 200, out |-> gallery]
  /\ UNCHANGED <<phase, now, storeVars, authVars, localStorage, localeVars, inflight, indices, hist>>

MaxSuggestions == 5
Min(a, b) == IF a < b THEN a ELSE b

\* Math.min(5, faqs.length)
suggestionCount(list) == Min(MaxSuggestions, Len(list))

\* Array.from(indices).map(i => faqs[i].question), indices counted from 0
suggestionsOf(list, picked) == [k \in 1..Len(picked) |-> list[picked[k] + 1].question]

\* An array's push in the place of the Set's add
setAddAgain(picked, i) == Append(picked, i)

\* indices.add(i): a Set keeps insertion order and ignores a value it holds
setAdd(picked, i) == IF i \in Range(picked) THEN picked ELSE Append(picked, i)

NotLooping == [on |-> FALSE, picked |-> <<>>]

\* GET /api/faqs-suggestions up to the loop: with count 0 the loop body never runs
SuggestStart ==
  /\ Serving
  /\ IF suggestionCount(faqs) = 0
       THEN /\ indices' = NotLooping
            /\ ev' = [op |-> "suggest", status |-> 200, picked |-> <<>>, out |-> <<>>]
     ELSE /\ indices' = [on |-> TRUE, picked |-> <<>>]
          /\ ev' = [op |-> "suggest", status |-> 0]
  /\ UNCHANGED <<phase, now, storeVars, authVars, localStorage, localeVars, inflight, hist>>

\* One iteration of the loop with Math.floor(Math.random() * faqs.length) = i, and,
\* when the set is full, the response
SuggestPick(i) ==
  LET picked == setAdd(indices.picked, i)
  IN  /\ indices.on
      /\ i \in 0..(Len(faqs) - 1)
      /\ IF Len(picked) < suggestionCount(faqs)
           THEN /\ indices' = [on |-> TRUE, picked |-> picked]
                /\ ev' = [op |-> "suggest", status |-> 0]
         ELSE /\ indices' = NotLooping
              /\ ev' = [op |-> "suggest", status |-> 200, picked |-> picked,
                        out |-> suggestionsOf(faqs, picked)]
      /\ UNCHANGED <<phase, now, storeVars, authVars, localStorage, localeVars, inflight, hist>>

(***************************************************************************)
(* Initial states and the inputs the requests are drawn from.              *)
(***************************************************************************)
Faq(q, a) == [question |-> q, answer |-> a]
Qa == <<"a">>
QAb == <<"A", "b">>
Ax == <<"x">>
Ay == <<"y", DQ>>

\* A text JSON.parse rejects
Garbage == <<"{", "o", "o", "p", "s">>

LocaleEn == Object([chat_no_answer |-> Str(<<"n", "o">>), title |-> Str(<<"T">>)])
LocaleFr == Object([chat_no_answer |-> Str(<<"n", "o", "n">>)])
LocaleBare == Object([title |-> Str(<<"T">>)])
Fr == <<"fr">>
De == <<"de">>

InitWith(faqFiles, galleryFiles, locales) ==
  /\ phase = "boot"
  /\ now = 0
  /\ faqs = <<>>
  /\ gallery = <<>>
  /\ faqsFile \in faqFiles
  /\ galleryFile \in galleryFiles
  /\ imgFiles = {}
  /\ sessions = EmptyMap
  /\ inherited = [k \in ProtoKeys |-> [timestamp |-> Undefined]]
  /\ localesCache = EmptyMap
  /\ localeFiles \in locales
  /\ inflight = EmptyBag
  /\ indices = NotLooping
  /\ hist = [issued |-> {}, lastOk |-> EmptyMap, loaded |-> <<>>, added |-> <<>>,
             failed |-> {}]
  /\ localStorage = Null
  /\ ev = [op |-> "init"]

AdminRoutes == {"add-faq", "upload-image"}

\* Values of the Authorization header
AuthHeaders ==
  {Undefined, Str(Bearer(<<"constructor">>)), Str(<<"Basic", SP>> \o TokenOf(1)),
   Str(<<"Bearer", SP, SP>> \o TokenOf(1)), Str(<<"Bearer">>)}
    \cup {Str(Bearer(TokenOf(i))) : i \in 1..(MaxLogins + 1)}

LoginOk == JsonReq(Object([username |-> Str(AdminUser), password |-> Str(AdminPassword)]))
LoginWrongPassword == JsonReq(Object([username |-> Str(AdminUser), password |-> Str(<<"guess">>)]))

LoginReqs ==
  {LoginOk, LoginWrongPassword,
   JsonReq(Object([username |-> Str(<<SP, "admin">>), password |-> Str(AdminPassword)])),
   TextReq(Object([username |-> Str(AdminUser), password |-> Str(AdminPassword)])),
   JsonReq(Null), MalformedReq}

Payload == <<"Q", "U", "J", "D">>
Png == Str(DataUri(PngChars, Payload))
Jpeg == Str(DataUri(JpegChars, Payload))
Gif == Str(DataUri(GifChars, Payload))

\* No handler is suspended: the requests of a scenario that serves one at a time
Idle == inflight = EmptyBag

\* Nothing has been uploaded yet: the uploads of a scenario that takes one into an
\* empty gallery
FirstUpload == gallery = <<>>

(***************************************************************************)
(* SpecAuth: logins and admin requests over time, one request at a time.   *)
(***************************************************************************)
InitAuth ==
  InitWith({File(stringifyFaqs(<<Faq(Qa, Ax)>>))}, {File(stringifyGallery(<<>>))},
           {EmptyMap})

NextAuth ==
  \/ LoadData
  \/ \E d \in {1, SessionTTL} : Tick(d)
  \/ Idle /\ Arrive("login")
  \/ \E req \in {LoginOk, LoginWrongPassword} : LoginEnd(req)
  \/ \E route \in AdminRoutes, auth \in AuthHeaders : Idle /\ AdminArrive(route, auth)
  \/ AddFaqEnd(EmptyReq, "ok")
  \/ \E hex \in RandomHex : UploadEnd(EmptyReq, hex, hex, "ok", "ok", "ok")

SpecAuth == InitAuth /\ [][NextAuth]_vars

\* C1: presenting a session's token to add-faq or upload-image authenticates iff at
\* most 24 hours have passed since the session was created or last authenticated;
\* on success its timestamp becomes now, otherwise the session is removed.
C1_SlidingExpiration ==
  [][\A tok \in DOMAIN sessions :
       (ev'.op = "auth" /\ ev'.route \in AdminRoutes /\ ev'.auth = Str(Bearer(tok))) =>
         IF now' - hist.lastOk[tok] <= SessionTTL
           THEN /\ ev'.status # 403
                /\ tok \in DOMAIN sessions'
                /\ sessions'[tok].timestamp = Num(now')
           ELSE /\ ev'.status = 403
                /\ tok \notin DOMAIN sessions']_vars

\* A token accepted exactly 24 hours after it was last accepted, later than 24
\* hours after the server started
C1_Witness ==
  /\ ev.op = "auth" /\ ev.status = 0
  /\ ev.elapsed = {SessionTTL}
  /\ now > SessionTTL
  /\ \E tok \in DOMAIN sessions :
       ev.auth = Str(Bearer(tok)) /\ sessions[tok].timestamp = Num(now)

\* C3: an add-faq or upload-image request that presents no live session token
\* (no header, a malformed one, an unknown or an expired token) is answered 403 and
\* leaves the FAQ and gallery lists, their documents and the image files unchanged.
C3_UnauthenticatedRefused ==
  [][(/\ ev'.op = "auth" /\ ev'.route \in AdminRoutes
      /\ ~\E tok \in DOMAIN sessions :
            /\ ev'.auth = Str(Bearer(tok))
            /\ now' - sessions[tok].timestamp.n <= SessionTTL)
       => (ev'.status = 403 /\ UNCHANGED storeVars)]_vars

(***************************************************************************)
(* SpecStore: the FAQ and gallery stores under admin mutations, one request *)
(* at a time, the clock standing still.                                     *)
(***************************************************************************)
StoreHeaders == {Undefined} \cup {Str(Bearer(TokenOf(i))) : i \in 1..(MaxLogins + 1)}

FaqBody(q, a) == Object([question |-> q, answer |-> a])

ValidFaqReqs ==
  {JsonReq(FaqBody(Str(<<SP, "a", NL>>), Str(Ax))),
   JsonReq(FaqBody(Str(QAb), Str(<<SP>> \o Ay)))}

InvalidFaqReqs ==
  {EmptyReq, MalformedReq,
   TextReq(FaqBody(Str(Qa), Str(Ax))),
   JsonReq(Num(5)),
   JsonReq(Object([question |-> Str(Qa)])),
   JsonReq(FaqBody(Num(5), Str(Ax))),
   JsonReq(FaqBody(Str(<<SP, NL>>), Str(Ax))),
   JsonReq(FaqBody(Str(Qa), Str(<<>>)))}

FaqReqs == ValidFaqReqs \cup InvalidFaqReqs \cup {JsonReq(Null)}

UploadBody(b, a) == Object([before |-> b, after |-> a])
StoreUploadReqs ==
  {JsonReq(Object([before |-> Png, after |-> Jpeg, title |-> Str(<<"T">>)])),
   JsonReq(UploadBody(Png, Gif)), EmptyReq}

InitStore ==
  InitWith({NoFile, File(Garbage), File(stringifyFaqs(<<Faq(Qa, Ax)>>))},
           {File(stringifyGallery(<<>>))},
           {EmptyMap})

NextStore ==
  \/ LoadData
  \/ Idle /\ Arrive("login")
  \/ \E req \in LoginReqs : LoginEnd(req)
  \/ \E route \in AdminRoutes, auth \in StoreHeaders : Idle /\ AdminArrive(route, auth)
  \/ \E req \in FaqReqs, outcome \in WriteOutcomes : AddFaqEnd(req, outcome)
  \/ \E req \in StoreUploadReqs, outcome \in WriteOutcomes :
       FirstUpload /\ UploadEnd(req, HexC0ffee, HexCafe, "ok", "ok", outcome)
  \/ FaqsGet
  \/ GalleryGet

SpecStore == InitStore /\ [][NextStore]_vars

\* What the claims call the entry of an add-faq request: its trimmed fields
Last(list) == list[Len(list)]
requestedFaq(req) ==
  Faq(trim(req.body.v.f.question.s), trim(req.body.v.f.answer.s))
requestedFaqs(reqs) == [i \in 1..Len(reqs) |-> requestedFaq(reqs[i])]

\* C2: the FAQ list is the list loaded at startup followed by the entries of the
\* accepted add-faq requests in the order they were accepted, GET /api/faqs returns
\* it, and after an append whose write succeeded the document on disk parses to it.
C2_FaqListAndDocument ==
  phase = "serving" =>
    /\ faqs = hist.loaded \o requestedFaqs(hist.added)
    /\ ev.op = "faqs" => ev.out = hist.loaded \o requestedFaqs(hist.added)
    /\ (ev.op = "add-faq" /\ ev.status = 200 /\ ev.write = "ok") =>
         /\ faqsFile.exists
         /\ parseArray(faqsFile.data).ok
         /\ loadFaqs(faqsFile) = faqs

\* Two accepted appends, the second with an answer that needs escaping, written
C2_Witness ==
  /\ ev.op = "add-faq" /\ ev.status = 200 /\ ev.write = "ok"
  /\ Len(hist.added) = 2
  /\ DQ \in Range(Last(faqs).answer)
  /\ faqs[1] # faqs[2]

\* C4: a login with any other credentials than the fixed pair is answered 401 and
\* adds no session; a session appears only in a login answered 200, under the token
\* that login returns; add-faq with a token that was never issued is answered 403.
C4_OnlyLoginIssuesSessions ==
  [][/\ (ev'.op = "login" /\ ev'.req # LoginOk) => (ev'.status = 401 /\ sessions' = sessions)
     /\ \A tok \in DOMAIN sessions' \ DOMAIN sessions :
          ev'.op = "login" /\ ev'.status = 200 /\ ev'.token = tok
     /\ (/\ ev'.op = "auth" /\ ev'.route = "add-faq"
         /\ ~\E tok \in hist.issued : ev'.auth = Str(Bearer(tok)))
          => ev'.status = 403]_vars

\* The fields of an add-faq request as the claim reads them: those of the JSON
\* object sent, none for any other body
sentField(req, key) ==
  IF includes(req.ctype, ContentJson) /\ req.body.k = "json" THEN prop(req.body.v, key)
  ELSE Undefined
acceptable(v) == v.t = "string" /\ trim(v.s) # <<>>

\* C5: an authenticated add-faq whose question or answer is missing, no string or
\* blank is answered 400 and changes neither the list nor its document; any other
\* one appends exactly the trimmed pair and is answered 200.
C5_AddFaqValidation ==
  [][ev'.op = "add-faq" =>
       IF acceptable(sentField(ev'.req, "question")) /\ acceptable(sentField(ev'.req, "answer"))
         THEN /\ ev'.status = 200
              /\ faqs' = Append(faqs, Faq(trim(sentField(ev'.req, "question").s),
                                          trim(sentField(ev'.req, "answer").s)))
         ELSE /\ ev'.status = 400
              /\ faqs' = faqs
              /\ faqsFile' = faqsFile]_vars

\* C10 as claimed: a 200 from add-faq or upload-image means the entry is appended
\* and the document on disk is the serialization of the whole in-memory list.
C10_SuccessMeansPersisted ==
  /\ (ev.op = "add-faq" /\ ev.status = 200) =>
       /\ faqs # <<>> /\ Last(faqs) = requestedFaq(ev.req)
       /\ faqsFile = File(stringifyFaqs(faqs))
  /\ (ev.op = "upload" /\ ev.status = 200) =>
       /\ gallery # <<>> /\ Last(gallery) = ev.entry
       /\ galleryFile = File(stringifyGallery(gallery))

\* C10 amended: as above for upload-image, and for add-faq when its write did not
\* fail; add-faq answers 200 with the entry appended in memory also when it failed.
C10_PersistedUnlessFaqWriteFailed ==
  /\ (ev.op = "add-faq" /\ ev.status = 200) =>
       /\ faqs # <<>> /\ Last(faqs) = requestedFaq(ev.req)
       /\ ev.write = "ok" => faqsFile = File(stringifyFaqs(faqs))
  /\ (ev.op = "upload" /\ ev.status = 200) =>
       /\ gallery # <<>> /\ Last(gallery) = ev.entry
       /\ galleryFile = File(stringifyGallery(gallery))

\* A second FAQ and a gallery entry, both answered 200 and both documents written
C10_Witness ==
  /\ ev.op = "upload" /\ ev.status = 200
  /\ Len(faqs) = 2 /\ faqsFile = File(stringifyFaqs(faqs))
  /\ Len(hist.added) >= 1

(***************************************************************************)
(* SpecChat: chat requests against the FAQ lists and locale documents the   *)
(* server can start with.                                                   *)
(***************************************************************************)
Qbc == <<"b", "c">>
Az == <<"z">>

ChatFaqLists ==
  {<<>>,
   <<Faq(Qa, Ax), Faq(QAb, Ay)>>,
   <<Faq(Qbc, Ax), Faq(<<"a", "b">>, Ay), Faq(<<"A", "B">>, Az)>>,
   <<Faq(<<"c", "a">>, Az), Faq(Qbc, Ax), Faq(Qa, Ay)>>}

ChatLocaleFiles ==
  {[l \in {En, Fr} |-> IF l = En THEN en ELSE fr] :
     en \in {MissingLocale, CorruptLocale, LocaleDoc(LocaleEn), LocaleDoc(LocaleBare)},
     fr \in {MissingLocale, CorruptLocale, LocaleDoc(LocaleFr)}}

ChatQuestions ==
  {Undefined, Num(5), Str(<<SP>>), Str(<<"A", "B">>), Str(<<SP, "a", "b", NL>>),
   Str(<<"a", "b", "c">>), Str(<<"c">>), Str(<<"z">>)}
ChatLangs == {Undefined, Num(5), Str(Fr), Str(<<SP>> \o En), Str(De)}

ChatReqs ==
  {JsonReq(Object([question |-> q, lang |-> l])) : q \in ChatQuestions, l \in ChatLangs}
    \cup {EmptyReq, MalformedReq, JsonReq(Null), TextReq(Object([question |-> Str(Qa)]))}

InitChat ==
  InitWith({File(stringifyFaqs(l)) : l \in ChatFaqLists}, {NoFile}, ChatLocaleFiles)

NextChat ==
  \/ LoadData
  \/ Idle /\ Arrive("chat")
  \/ \E req \in ChatReqs : ChatEnd(req)
  \/ \E c \in BagToSet(inflight) : ReadDone(c)

SpecChat == InitChat /\ [][NextChat]_vars

\* The question a chat request asks, as the claims read it: the trimmed string
\* sent, for a request whose question and language are strings or absent
wellTyped(req) ==
  /\ sentField(req, "question").t \in {"string", "undefined"}
  /\ sentField(req, "lang").t \in {"string", "undefined"}
  /\ ~(includes(req.ctype, ContentJson) /\ req.body.k = "json" /\ req.body.v.t = "null")
asked(req) ==
  IF sentField(req, "question").t = "string" THEN trim(sentField(req, "question").s)
  ELSE <<>>

sameIgnoringCase(s, t) == toLowerCase(s) = toLowerCase(t)
exactMatches(list, input) ==
  {i \in 1..Len(list) : sameIgnoringCase(list[i].question, input)}
partialMatches(list, input) ==
  {i \in 1..Len(list) :
     \/ includes(toLowerCase(list[i].question), toLowerCase(input))
     \/ includes(toLowerCase(input), toLowerCase(list[i].question))}

\* The handler has matched a non-blank question of a request whose question and
\* language are strings or absent (any other request throws before matching)
ChatAnswered == ev.op = "chat" /\ ev.step = "end" /\ wellTyped(ev.req) /\ asked(ev.req) # <<>>

C8_ChatAlwaysAnswers ==
  (ev.op = "chat" /\ ev.status # 0) =>
    /\ ev.status = 200
    /\ IF ev.matched
         THEN ev.answer = matchAnswer(faqs, asked(ev.req))
       ELSE IF truthy(prop(ev.locale, "chat_no_answer"))
         THEN ev.answer = prop(ev.locale, "chat_no_answer")
       ELSE ev.answer = Str(DefaultAnswer)

(***************************************************************************)
(* SpecSuggest: the suggestions route over FAQ lists of 0, 1, 3 and 6       *)
(* entries; SpecSuggestFair adds the fairness of the random draw.           *)
(***************************************************************************)
Qb == <<"b">>
Qc == <<"c">>
Qd == <<"d">>
Qe == <<"e">>

SuggestFaqLists ==
  {<<>>,
   <<Faq(Qa, Ax)>>,
   <<Faq(Qa, Ax), Faq(Qb, Ay), Faq(Qa, Az)>>,
   <<Faq(Qa, Ax), Faq(Qb, Ax), Faq(Qc, Ax), Faq(Qd, Ax), Faq(Qe, Ax), Faq(Qa, Az)>>}

\* The values Math.floor(Math.random() * faqs.length) takes over these lists
Draws == 0..5

InitSuggest ==
  InitWith({File(stringifyFaqs(l)) : l \in SuggestFaqLists}, {NoFile}, {EmptyMap})

NextSuggest ==
  \/ LoadData
  \/ SuggestStart
  \/ \E i \in Draws : SuggestPick(i)
  \/ FaqsGet

SpecSuggest == InitSuggest /\ [][NextSuggest]_vars

\* Math.random() is fair: a value that would add to the set is not avoided for ever
SpecSuggestFair == SpecSuggest /\ \A i \in Draws : WF_vars(SuggestPick(i))

\* C9: the suggestions response holds exactly min(5, |faqs|) questions, those of
\* pairwise distinct positions of the FAQ list; an empty list is answered [] at once,
\* without a loop; the FAQ list is never changed; and a loop that started ends.
C9_Suggestions ==
  /\ [][ev'.op = "suggest" =>
          /\ faqs' = faqs
          /\ faqs = <<>> => (ev'.status = 200 /\ ev'.out = <<>> /\ ~indices.on /\ ~indices'.on)
          /\ ev'.status = 200 =>
               /\ Len(ev'.out) = Min(5, Len(faqs))
               /\ Len(ev'.picked) = Len(ev'.out)
               /\ \A k \in 1..Len(ev'.out) :
                    /\ ev'.picked[k] + 1 \in 1..Len(faqs)
                    /\ ev'.out[k] = faqs[ev'.picked[k] + 1].question
               /\ \A j, k \in 1..Len(ev'.out) : j # k => ev'.picked[j] # ev'.picked[k]]_vars
  /\ indices.on ~> (~indices.on /\ ev.op = "suggest" /\ ev.status = 200)

\* Five questions of a six-entry list, not in the list's order, one question twice
C9_Witness ==
  /\ ev.op = "suggest" /\ ev.status = 200
  /\ Len(faqs) = 6 /\ Len(ev.out) = 5
  /\ ev.picked[1] > ev.picked[2]
  /\ ev.out[1] = ev.out[5]

(***************************************************************************)
(* SpecUpload: upload-image requests over image values of every shape, with *)
(* every outcome of the three writes, one request at a time.                *)
(***************************************************************************)
ImageValues ==
  {Png, Jpeg, Gif,
   Str(Payload),
   Str(DataUri(PngChars, <<>>)),
   Str(DataUri(<<"P", "N", "G">>, Payload)),
   Str(DataUri(JpgChars, Payload)),
   Str(DataUri(PngChars \o <<"x">>, Payload)),
   Str(<<SP>> \o DataUri(PngChars, Payload)),
   Str(DataUri(JpegChars, Payload \o <<NL>>)),
   Str(DataUri(PngChars, <<"!">>)),
   Str(<<>>), Num(5), Undefined}

UploadReqs ==
  {JsonReq(UploadBody(v, Png)) : v \in ImageValues}
    \cup {JsonReq(UploadBody(Jpeg, v)) : v \in ImageValues}
    \cup {JsonReq(UploadBody(Gif, Str(Payload))), JsonReq(Null), EmptyReq}

InitUpload ==
  InitWith({File(stringifyFaqs(<<>>))}, {NoFile, File(stringifyGallery(<<>>))}, {EmptyMap})

\* The outcomes of the three writes of one upload: at most one of them fails
UploadOutcomes ==
  {<<o, "ok", "ok">> : o \in WriteOutcomes} \cup {<<"ok", o, "ok">> : o \in WriteOutcomes}
    \cup {<<"ok", "ok", o>> : o \in WriteOutcomes}

NextUpload ==
  \/ LoadData
  \/ Idle /\ Arrive("login")
  \/ LoginEnd(LoginOk)
  \/ \E auth \in StoreHeaders : Idle /\ AdminArrive("upload-image", auth)
  \/ \E req \in UploadReqs, hexA \in RandomHex, o \in UploadOutcomes :
       FirstUpload /\ UploadEnd(req, HexC0ffee, hexA, o[1], o[2], o[3])

SpecUpload == InitUpload /\ [][NextUpload]_vars

\* The form the claim names: data:image/png;base64,<payload> or
\* data:image/jpeg;base64,<payload>, the payload not empty
formMime(v) ==
  {mime \in {PngChars, JpegChars} :
     /\ v.t = "string"
     /\ Len(v.s) > Len(DataUri(mime, <<>>))
     /\ SubSeq(v.s, 1, Len(DataUri(mime, <<>>))) = DataUri(mime, <<>>)}
ofTheForm(v) == formMime(v) # {}
singleLine(v) == \A i \in 1..Len(v.s) : v.s[i] \notin LineTerminators

HexDigits == {"0", "1", "2", "3", "4", "5", "6", "7", "8", "9", "a", "b", "c", "d", "e", "f"}

\* assets/img/<prefix>-<millis>-<8 hex>.<ext>
wellFormedPath(path, prefix, t, ext) ==
  /\ Len(path) = 14 + Len(ext)
  /\ SubSeq(path, 1, 5) = <<"assets/img/", prefix, "-", ToString(t), "-">>
  /\ \A i \in 6..13 : path[i] \in HexDigits
  /\ path[14] = "."
  /\ SubSeq(path, 15, Len(path)) = ext

\* What saveImage did with the image sent as key, the k-th call of the request
ingested(key, prefix, k) ==
  LET v == sentField(ev.req, key)
      r == ev.saved[k]
  IN  /\ ~ofTheForm(v) => (r.r = "null" /\ r.files = {})
      /\ (ofTheForm(v) /\ singleLine(v)) => r.r # "null"
      /\ r.r = "path" =>
           /\ wellFormedPath(r.path, prefix, now,
                             IF formMime(v) = {PngChars} THEN PngChars ELSE JpgChars)
           /\ r.files = {Tail(r.path)}
           /\ r.files \subseteq imgFiles

decodes(req, key) == ofTheForm(sentField(req, key)) /\ singleLine(sentField(req, key))

\* The step answers an upload whose two images are present and not both decodable
partlyDecodable ==
  /\ inflight' # inflight /\ ev'.op = "upload"
  /\ sentField(ev'.req, "before") # Undefined /\ truthy(sentField(ev'.req, "before"))
  /\ sentField(ev'.req, "after") # Undefined /\ truthy(sentField(ev'.req, "after"))
  /\ ~decodes(ev'.req, "before") \/ ~decodes(ev'.req, "after")

\* A file of the image sent as key is among the files
stored(files, key, t) ==
  \E f \in files : SubSeq(f, 1, 4) = <<key, "-", ToString(t), "-">>

nothingAppended == gallery' = gallery /\ galleryFile' = galleryFile /\ imgFiles \subseteq imgFiles'

otherImageKept ==
  \A key \in {"before", "after"} : decodes(ev'.req, key) => stored(imgFiles', key, now)

writeThrew(e) == \E k \in 1..Len(e.saved) : e.saved[k].r = "throw"

\* C22 as claimed: an authenticated upload with both images present but at least
\* one not decodable is answered 400, appends nothing to the gallery and does not
\* write the gallery document, and the file of the other image, if that one
\* decoded, has been written and stays.
C22_PartialIngestAnswered400 ==
  [][partlyDecodable => ev'.status = 400 /\ nothingAppended /\ otherImageKept]_vars

\* C22 amended: as above when writing the file of the other image succeeds; when
\* that write fails the request is answered 500, and again nothing is appended to
\* the gallery and the gallery document is not written.
C22_PartialIngestNotRolledBack ==
  [][partlyDecodable =>
       /\ nothingAppended
       /\ IF writeThrew(ev')
            THEN ev'.status = 500 /\ ev'.error = "Failed to save images"
          ELSE ev'.status = 400 /\ ev'.error = "Invalid image data" /\ otherImageKept]_vars

\* The 'before' image is a GIF and the 'after' image a PNG: answered 400, nothing in
\* the gallery, and the file of the 'after' image is in static storage
C22_Witness ==
  /\ ev.op = "upload" /\ ev.status = 400
  /\ sentField(ev.req, "before") = Gif /\ sentField(ev.req, "after") = Png
  /\ gallery = <<>>
  /\ stored(imgFiles, "after", now) /\ ~stored(imgFiles, "before", now)

(***************************************************************************)
(* SpecFaults: requests of every route that can throw, suspended side by    *)
(* side, with bodies that make a handler throw and writes that fail.        *)
(***************************************************************************)
ChatNoMatch == JsonReq(Object([question |-> Str(<<"z">>)]))
ChatBadQuestion == JsonReq(Object([question |-> Num(5)]))
FaqOk == JsonReq(FaqBody(Str(QAb), Str(Ay)))
UploadOk == JsonReq(UploadBody(Png, Jpeg))

InitFaults ==
  InitWith({File(stringifyFaqs(<<Faq(Qa, Ax)>>))}, {File(stringifyGallery(<<>>))},
           {[l \in {En} |-> CorruptLocale]})

NextFaults ==
  \/ LoadData
  \/ \E route \in {"login", "chat"} : Arrive(route)
  \/ \E route \in {"chat", "add-faq"} : BodyDestroyed(route)
  \/ \E req \in {LoginOk, JsonReq(Null)} : LoginEnd(req)
  \/ \E route \in AdminRoutes, auth \in {Undefined, Str(Bearer(TokenOf(1)))} :
       AdminArrive(route, auth)
  \/ \E req \in {FaqOk, JsonReq(Null), MalformedReq}, outcome \in WriteOutcomes :
       AddFaqEnd(req, outcome)
  \/ \E req \in {UploadOk, JsonReq(Null)}, o \in UploadOutcomes :
       FirstUpload /\ UploadEnd(req, HexC0ffee, HexCafe, o[1], o[2], o[3])
  \/ \E req \in {ChatNoMatch, ChatBadQuestion} : ChatEnd(req)
  \/ \E c \in BagToSet(inflight) : ReadDone(c)

SpecFaults == InitFaults /\ [][NextFaults]_vars

\* The body a request sends is the JSON text null
nullBody(req) ==
  includes(req.ctype, ContentJson) /\ req.body.k = "json" /\ req.body.v.t = "null"

FailedWrites == {"fail-open", "fail-write"}

\* The step ran into an exception that nothing but the handler's outer try/catch (or,
\* in upload-image, the try/catch around the whole ingestion) catches: a property
\* read on null, .trim on a value that is no string, a failed write in upload-image
thrownToHandler(e) ==
  \/ e.op \in {"login", "add-faq", "upload"} /\ nullBody(e.req)
  \/ /\ e.op = "chat" /\ e.step = "end"
     /\ \/ nullBody(e.req)
        \/ \E key \in {"question", "lang"} :
             truthy(sentField(e.req, key)) /\ sentField(e.req, key).t # "string"
  \/ /\ e.op = "upload"
     /\ \/ \E k \in 1..Len(e.saved) : e.saved[k].r = "throw"
        \/ e.write \in FailedWrites

\* The step ran into an exception that the code catches where it is raised and
\* answers as if nothing had happened: the failed write of add-faq
caughtInPlace(e) == e.op = "add-faq" /\ e.write \in FailedWrites

\* Requests the step dispatched, responses it sent
dispatched(e) == IF e.op \in {"arrive", "auth"} THEN 1 ELSE 0
answered(e) ==
  IF e.op \in {"auth", "login", "add-faq", "upload", "chat"} /\ e.status # 0 THEN 1 ELSE 0

\* The server goes on and every handled request gets exactly one response: the event
\* loop stays free, and a step changes the number of suspended handlers by what it
\* dispatched less what it answered (a request whose connection was destroyed
\* because its body passed 20MB is dropped and not handled)
goesOn ==
  /\ phase' = "serving" /\ ~indices'.on
  /\ BagCardinality(inflight') =
       IF ev'.op = "destroy" THEN BagCardinality(inflight) - 1
       ELSE BagCardinality(inflight) + dispatched(ev') - answered(ev')

\* C12 as claimed: every exception raised while a request is handled gives a 500,
\* the server goes on serving and every handled request gets exactly one response.
C12_EveryExceptionIs500 ==
  [][phase = "serving" =>
       /\ goesOn
       /\ (thrownToHandler(ev') \/ caughtInPlace(ev')) => ev'.status = 500]_vars

\* C12 amended: every exception that is not caught where it is raised gives a 500, the
\* server goes on serving and every handled request gets exactly one response.
C12_UncaughtExceptionIs500 ==
  [][phase = "serving" =>
       /\ goesOn
       /\ thrownToHandler(ev') => ev'.status = 500]_vars

\* A chat request answered 500 while another handler stays suspended, after an upload
\* that was answered 500 and left its image file behind
C12_Witness ==
  /\ ev.op = "chat" /\ ev.status = 500
  /\ imgFiles # {} /\ gallery = <<>>
  /\ inflight # EmptyBag
  /\ phase = "serving"

(***************************************************************************)
(* SpecBoot: loadData over documents that are absent, damaged, cut short or *)
(* as the server writes them, and the listings after it.                    *)
(***************************************************************************)
BootFaqLists == {<<>>, <<Faq(Qa, Ax)>>, <<Faq(Qa, Ax), Faq(QAb, Ay)>>}

StoredEntry ==
  [before |-> ImgDir \o fileName("before", 7, HexC0ffee, PngChars),
   after |-> ImgDir \o fileName("after", 7, HexCafe, JpgChars),
   title |-> Str(<<"T", DQ>>), description |-> Str(<<>>)]
BootGalleryLists == {<<>>, <<StoredEntry>>}

\* The document without its last character, as a write that was cut short leaves it
cutShort(text) == SubSeq(text, 1, Len(text) - 1)

\* Documents JSON.parse rejects, or that cannot be read
BrokenFiles ==
  {NoFile, File(<<>>), File(Garbage), File(cutShort(stringifyFaqs(<<Faq(Qa, Ax)>>))),
   File(cutShort(stringifyGallery(<<StoredEntry>>)))}

InitBoot ==
  InitWith(BrokenFiles \cup {File(stringifyFaqs(l)) : l \in BootFaqLists},
           BrokenFiles \cup {File(stringifyGallery(l)) : l \in BootGalleryLists},
           {EmptyMap})

NextBoot ==
  \/ LoadData
  \/ FaqsGet
  \/ GalleryGet

SpecBoot == InitBoot /\ [][NextBoot]_vars

Up == <<".", ".">>
Dot == <<".">>
EncodedUp == <<"%", "2", "e", "%", "2", "e">>
SegA == <<"a">>
SegApp == <<"a", "p", "p">>
SegEtc == <<"e", "t", "c">>
SegPublic == <<"p", "u", "b", "l", "i", "c">>
SegPublic2 == SegPublic \o <<"2">>
SegIndex == <<"i", "n", "d", "e", "x", ".", "h", "t", "m", "l">>

\* publicDir = path.join(__dirname, 'public'), the server living in /app
PublicDir == <<SegApp, SegPublic>>

\* The files of the machine: two under the static root, the others outside it
Disk ==
  {PublicDir \o <<SegIndex>>, PublicDir \o <<SegA>>,
   <<SegApp, SegPublic2, SegA>>, <<SegApp, SegA>>, <<SegEtc, SegA>>, <<SegA>>}

pathText(path) == Flatten([i \in 1..Len(path) |-> <<"/">> \o path[i]])

\* Removal of dot segments: a segment of ups drops the segment before it (at the
\* root, nothing), a segment of dots is dropped
RECURSIVE collapse(_, _, _, _)
collapse(segs, acc, ups, dots) ==
  IF segs = <<>> THEN acc
  ELSE IF Head(segs) \in ups
    THEN collapse(Tail(segs), SubSeq(acc, 1, Len(acc) - 1), ups, dots)
  ELSE IF Head(segs) \in dots THEN collapse(Tail(segs), acc, ups, dots)
  ELSE collapse(Tail(segs), Append(acc, Head(segs)), ups, dots)

\* Mutant of urlPathname: the path of the request line as the client wrote it
urlPathnameRaw(target) == target

\* new URL(req.url, base).pathname: the URL parser removes the dot segments, also
\* the percent-encoded ones
urlPathname(target) ==
  collapse(target, <<>>, {Up, EncodedUp, <<".", "%", "2", "e">>, <<"%", "2", "e", ".">>},
           {Dot, <<"%", "2", "e">>})

\* path.join and path.resolve: the segments put together and normalized; a
\* percent-encoded segment is a name like any other
pathJoin(dir, rest) == collapse(dir \o rest, <<>>, {Up}, {Dot})

isFile(path) == path \in Disk
isDirectory(path) ==
  \E f \in Disk : Len(f) > Len(path) /\ SubSeq(f, 1, Len(path)) = path

\* serveStatic(pathname, res): the file it serves, if any; readable tells whether
\* fs.readFileSync succeeds
serveStatic(pathname, readable) ==
  LET resolved == pathJoin(PublicDir, pathname)
      filePath == IF isDirectory(resolved) THEN pathJoin(resolved, <<SegIndex>>)
                  ELSE resolved
  IN  IF ~startsWith(pathText(resolved), pathText(PublicDir)) THEN [served |-> FALSE]
      ELSE IF ~(isFile(filePath) \/ isDirectory(filePath)) THEN [served |-> FALSE]
      ELSE IF ~isFile(filePath) \/ ~readable THEN [served |-> FALSE]
      ELSE [served |-> TRUE, file |-> filePath]

\* A request that no route takes: serveStatic, else 404 Not Found
StaticGet(target, readable) ==
  LET r == serveStatic(urlPathname(target), readable)
  IN  /\ Serving
      /\ ev' = IF r.served
                 THEN [op |-> "static", target |-> target, status |-> 200, file |-> r.file]
               ELSE [op |-> "static", target |-> target, status |-> 404]
      /\ UNCHANGED <<phase, now, storeVars, authVars, localStorage, localeVars, inflight, indices, hist>>

(***************************************************************************)
(* SpecStatic: requests for every path of up to MaxSegments segments.       *)
(***************************************************************************)
MaxSegments == 3
Segments == {Up, Dot, EncodedUp, SegA, SegApp, SegEtc, SegPublic2}
Targets == UNION {[1..n -> Segments] : n \in 0..MaxSegments}

InitStatic == InitWith({NoFile}, {NoFile}, {EmptyMap})

\* A static request changes no state, so one request after startup shows them all
NextStatic ==
  \/ LoadData
  \/ \E target \in Targets, readable \in BOOLEAN :
       ev.op = "boot" /\ StaticGet(target, readable)

SpecStatic == InitStatic /\ [][NextStatic]_vars

\* The path lies inside the static root: below /app/public
insideRoot(path) == Len(path) > Len(PublicDir) /\ SubSeq(path, 1, Len(PublicDir)) = PublicDir

\* Where the request path leads when its dot segments, written out or
\* percent-encoded, are followed from the static root
RECURSIVE walk(_, _)
walk(from, segs) ==
  IF segs = <<>> THEN from
  ELSE IF Head(segs) \in {Up, EncodedUp} THEN walk(SubSeq(from, 1, Len(from) - 1), Tail(segs))
  ELSE IF Head(segs) = Dot THEN walk(from, Tail(segs))
  ELSE walk(Append(from, Head(segs)), Tail(segs))

\* C14 as claimed: a request that falls through to the static lookup is answered
\* with a file only if that file lies inside the static root, and a request whose
\* path would lead outside the static root is refused and answered 404.
C14_TraversalRefused ==
  ev.op = "static" =>
    /\ ev.status \in {200, 404}
    /\ ev.status = 200 => (insideRoot(ev.file) /\ ev.file \in Disk)
    /\ ~insideRoot(walk(PublicDir, ev.target)) /\ walk(PublicDir, ev.target) # PublicDir
         => ev.status = 404

\* C14 amended: a request that falls through to the static lookup is answered with a
\* file only if that file lies inside the static root: the file, or the index.html of
\* the directory, that the request path names below the static root once its dot
\* segments are removed (at the top they lead nowhere); it is answered 404 otherwise.
C14_StaticStaysInsideRoot ==
  ev.op = "static" =>
    /\ ev.status \in {200, 404}
    /\ ev.status = 200 =>
         /\ insideRoot(ev.file) /\ ev.file \in Disk
         /\ ev.file \in {PublicDir \o walk(<<>>, ev.target),
                         PublicDir \o walk(<<>>, ev.target) \o <<SegIndex>>}

\* /../public2/a is answered 404 although /app/public2/a exists and its text begins
\* like the text of the static root
C14_Witness ==
  /\ ev.op = "static" /\ ev.status = 404
  /\ ev.target = <<Up, SegPublic2, SegA>>
  /\ walk(PublicDir, ev.target) \in Disk

(***************************************************************************)
(* SpecFlush: admin mutations whose writes may fail, one request at a      *)
(* time, and the list requests between them.                               *)
(***************************************************************************)
FlushFaqReqs == {FaqOk, JsonReq(FaqBody(Str(Qa), Str(Ay)))}
FlushUploadReqs == {UploadOk}

InitFlush ==
  InitWith({File(stringifyFaqs(<<>>)), File(stringifyFaqs(<<Faq(Qa, Ax)>>))},
           {File(stringifyGallery(<<>>))},
           {EmptyMap})

NextFlush ==
  \/ LoadData
  \/ Idle /\ Arrive("login")
  \/ LoginEnd(LoginOk)
  \/ \E route \in AdminRoutes : Idle /\ AdminArrive(route, Str(Bearer(TokenOf(1))))
  \/ \E req \in FlushFaqReqs, outcome \in WriteOutcomes : AddFaqEnd(req, outcome)
  \/ \E req \in FlushUploadReqs, outcome \in WriteOutcomes :
       UploadEnd(req, HexC0ffee, HexCafe, "ok", "ok", outcome)
  \/ FaqsGet
  \/ GalleryGet

SpecFlush == InitFlush /\ [][NextFlush]_vars

isPrefix(s, t) == Len(s) <= Len(t) /\ SubSeq(t, 1, Len(s)) = s

\* What a failed write can leave of a document that was there: the open truncated it
Truncated == File(<<>>)

\* The step appended an entry to the list and tried to write the document
faqAppended == inflight' # inflight /\ ev'.op = "add-faq" /\ ev'.status = 200
galleryAppended == inflight' # inflight /\ ev'.op = "upload" /\ ev'.write # "none"

faqDiverged == faqsFile # File(stringifyFaqs(faqs))
galleryDiverged == galleryFile # File(stringifyGallery(gallery))

\* The same of the documents and lists the step leaves
faqDivergedAfter == faqsFile' # File(stringifyFaqs(faqs'))
galleryDivergedAfter == galleryFile' # File(stringifyGallery(gallery'))

\* Entries stay on the lists and the list requests return the whole lists
entriesKept ==
  /\ isPrefix(faqs, faqs') /\ isPrefix(gallery, gallery')
  /\ ev'.op = "faqs" => ev'.out = faqs'
  /\ ev'.op = "gallery" => ev'.out = gallery'

\* After a failed write the entry is on the list and the document is one of left
divergesOnFailure(left(_)) ==
  /\ faqAppended /\ ev'.write # "ok" =>
       /\ faqs' = Append(faqs, requestedFaq(ev'.req))
       /\ faqsFile' \in left(faqsFile)
       /\ faqDivergedAfter
  /\ galleryAppended /\ ev'.write # "ok" =>
       /\ Len(gallery') = Len(gallery) + 1 /\ isPrefix(gallery, gallery')
       /\ galleryFile' \in left(galleryFile)
       /\ galleryDivergedAfter

\* Divergence lasts until the next successful write, which writes the whole list
convergesOnSuccess ==
  /\ \/ UNCHANGED <<faqs, faqsFile>>
     \/ faqDiverged /\ ~(faqAppended /\ ev'.write = "ok") => faqDivergedAfter
  /\ \/ UNCHANGED <<gallery, galleryFile>>
     \/ galleryDiverged /\ ~(galleryAppended /\ ev'.write = "ok") => galleryDivergedAfter
  /\ faqAppended /\ ev'.write = "ok" => ~faqDivergedAfter
  /\ galleryAppended /\ ev'.write = "ok" => ~galleryDivergedAfter

previousContent(file) == {file}
previousOrTruncated(file) == {file, Truncated}

\* C15 as claimed: when the write of the FAQ document or of the gallery document
\* fails during an admin mutation, the appended entry stays on the list and every
\* later list request returns it, the document keeps its previous content, and list
\* and document stay different until the next successful write of that document,
\* after which the document equals the whole list again.
C15_FailedWriteKeepsDocument ==
  [][Serving => entriesKept /\ divergesOnFailure(previousContent) /\ convergesOnSuccess]_vars

\* C15 amended: as above, except that the document keeps its previous content only
\* when the write failed at opening the file; when it failed after the file was
\* opened the document is left truncated.
C15_FailedWriteNotRolledBack ==
  [][Serving => entriesKept /\ divergesOnFailure(previousOrTruncated) /\ convergesOnSuccess]_vars

\* The write of the gallery document failed and it still differs from the gallery;
\* a write of the FAQ document failed too, and an add-faq after it has written the
\* whole FAQ list, the unwritten entry included
C15_Witness ==
  /\ hist.failed = {"faqs", "gallery"}
  /\ Len(gallery) = 1 /\ galleryDiverged
  /\ ev.op = "add-faq" /\ ev.status = 200 /\ ev.write = "ok"
  /\ Len(faqs) = 2 /\ ~faqDiverged

\* C16: write failures surface differently: an authenticated valid add-faq request
\* is answered 200 whether or not the write of the FAQ document fails; an
\* upload-image request in which the write of an image file or of the gallery
\* document fails is answered 500, and one answered 200 has written both image
\* files and the gallery document.
C16_AsymmetricSurfacing ==
  /\ (/\ ev.op = "add-faq"
      /\ acceptable(sentField(ev.req, "question"))
      /\ acceptable(sentField(ev.req, "answer")))
       => (ev.status = 200 /\ ev.write \in WriteOutcomes)
  /\ ev.op = "upload" =>
       /\ writeThrew(ev) \/ ev.write \in FailedWrites => ev.status = 500
       /\ ev.status = 200 =>
            /\ stored(imgFiles, "before", now) /\ stored(imgFiles, "after", now)
            /\ ev.write = "ok" /\ ~galleryDiverged

\* An add-faq is answered 200 although the write of the FAQ document failed, after
\* an upload whose write of the gallery document failed (and was answered 500)
C16_Witness ==
  /\ ev.op = "add-faq" /\ ev.status = 200 /\ ev.write = "fail-open"
  /\ faqDiverged
  /\ "gallery" \in hist.failed /\ galleryDiverged

(***************************************************************************)
(* SpecRace: admin mutations that arrive while others are still awaiting   *)
(* their bodies; every write succeeds.                                     *)
(***************************************************************************)
RaceFaqReqs == {FaqOk, JsonReq(FaqBody(Str(Qa), Str(Ay)))}

InitRace ==
  InitWith({File(stringifyFaqs(<<>>))}, {File(stringifyGallery(<<>>))}, {EmptyMap})

NextRace ==
  \/ LoadData
  \/ Idle /\ Arrive("login")
  \/ LoginEnd(LoginOk)
  \/ \E route \in AdminRoutes : AdminArrive(route, Str(Bearer(TokenOf(1))))
  \/ \E req \in RaceFaqReqs : AddFaqEnd(req, "ok")
  \/ UploadEnd(UploadOk, HexC0ffee, HexCafe, "ok", "ok", "ok")
  \/ FaqsGet
  \/ GalleryGet

SpecRace == InitRace /\ [][NextRace]_vars

\* A handler whose body has arrived runs on, and the lists go on being requested
SpecRaceFair ==
  /\ SpecRace
  /\ \A req \in RaceFaqReqs : WF_vars(AddFaqEnd(req, "ok"))
  /\ WF_vars(UploadEnd(UploadOk, HexC0ffee, HexCafe, "ok", "ok", "ok"))
  /\ WF_vars(FaqsGet) /\ WF_vars(GalleryGet)

\* Some entry is on its list and the write of its document has not been made
appendedNotFlushed == phase = "serving" /\ (faqDiverged \/ galleryDiverged)

\* C17 as claimed: of two concurrent mutating requests on one document, one can run
\* between the other's append and the other's write: a state is reached in which an
\* entry is on the list and the write of its document is still to come.
C17_InterleavingReached == <>appendedNotFlushed

\* C17 amended: nothing runs between a request's append and its write: in no state
\* is an entry on its list with the write of its document still to come, however
\* the requests overlap, so a request serialises another's entry only after that
\* one's write has been made.
C17_AppendAndWriteTogether == ~appendedNotFlushed

\* Two add-faq requests were awaiting their bodies at once; one has appended and
\* written, the other is still waiting
C17_Witness ==
  /\ ev.op = "add-faq" /\ ev.status = 200
  /\ BagIn(AwaitBody("add-faq"), inflight)
  /\ Len(faqs) = 1 /\ ~faqDiverged

\* C18: with add-faq requests overlapping in every way and every write succeeding,
\* the FAQ list is the list loaded at startup followed by the entry of every accepted
\* request, once each, in the order their bodies finished arriving, and the document
\* holds that list: no append is lost or doubled.
C18_NoLostAppend ==
  phase = "serving" =>
    /\ Len(faqs) = Len(hist.loaded) + Len(hist.added)
    /\ \A i \in 1..Len(hist.added) :
         faqs[Len(hist.loaded) + i] = requestedFaq(hist.added[i])
    /\ SubSeq(faqs, 1, Len(hist.loaded)) = hist.loaded
    /\ faqsFile = File(stringifyFaqs(hist.loaded \o requestedFaqs(hist.added)))

\* Two add-faq requests have been accepted, the second of them while another one
\* was awaiting its body, and their entries differ
C18_Witness ==
  /\ ev.op = "add-faq" /\ ev.status = 200
  /\ BagIn(AwaitBody("add-faq"), inflight)
  /\ Len(hist.added) = 2 /\ hist.added[1] # hist.added[2]
  /\ faqs = requestedFaqs(hist.added)

(***************************************************************************)
(* The admin console (public/assets/js/admin.js)                           *)
(***************************************************************************)
\* localStorage.getItem('adminToken') inside `Bearer ${token}`
tokenText(item) == IF item.t = "string" THEN item.s ELSE <<"null">>
consoleAuth == Str(Bearer(tokenText(localStorage)))

\* The login form's handler after its response has arrived with a token:
\* localStorage.setItem('adminToken', data.token)
ConsoleLoggedIn ==
  /\ ev.op = "login" /\ ev.status = 200
  /\ localStorage' = Str(ev.token)
  /\ ev' = [op |-> "console", did |-> "login"]
  /\ UNCHANGED <<phase, now, storeVars, authVars, localeVars, inflight, indices, hist>>

\* Mutant of ConsoleLogout: logging out takes the session off the server's registry
ConsoleLogoutInvalidates ==
  /\ localStorage # Null
  /\ localStorage' = Null
  /\ sessions' = dropKey(sessions, localStorage.s)
  /\ ev' = [op |-> "console", did |-> "logout"]
  /\ UNCHANGED <<phase, now, storeVars, inherited, localeVars, inflight, indices, hist>>

\* The logout button, shown while a token is stored: localStorage.removeItem('adminToken')
ConsoleLogout ==
  /\ localStorage # Null
  /\ localStorage' = Null
  /\ ev' = [op |-> "console", did |-> "logout"]
  /\ UNCHANGED <<phase, now, storeVars, authVars, localeVars, inflight, indices, hist>>

\* The FAQ form or the gallery form is submitted: the request carries the stored token
ConsoleSubmit(route) ==
  /\ localStorage # Null
  /\ AdminArrive(route, consoleAuth)

\* reader.readAsDataURL(file): data:<type>;base64,<the bytes in base64>
ImageType == <<"i", "m", "a", "g", "e", "/">>
readAsDataURL(file) == <<"d", "a", "t", "a", ":">> \o file.type \o Base64Marker \o file.base64

\* text.split(',')[1]: what stands between the first comma and the second, if any
splitCommaSecond(text) ==
  LET commas == {i \in 1..Len(text) : text[i] = ","}
      first == MinOf(commas)
      later == {i \in commas : i > first}
  IN  IF commas = {} THEN Undefined
      ELSE Str(SubSeq(text, first + 1, IF later = {} THEN Len(text) ELSE MinOf(later) - 1))

\* toDataURL(file) resolves reader.result.split(',')[1]
toDataURL(file) == splitCommaSecond(readAsDataURL(file))

\* JSON.stringify({ before: beforeBase64, after: afterBase64 }), sent as application/json
galleryFormReq(beforeFile, afterFile) ==
  JsonReq(UploadBody(toDataURL(beforeFile), toDataURL(afterFile)))

\* JSON.stringify({ question, answer }) of the trimmed fields, sent unless one is empty
faqFormReqs(question, answer) ==
  IF trim(question) = <<>> \/ trim(answer) = <<>> THEN {}
  ELSE {JsonReq(FaqBody(Str(trim(question)), Str(trim(answer))))}

(***************************************************************************)
(* SpecSessions: a session over time, used from the console and by other   *)
(* holders of tokens, among requests of every other kind.                  *)
(***************************************************************************)
InitSessions ==
  InitWith({File(stringifyFaqs(<<Faq(Qa, Ax)>>))}, {File(stringifyGallery(<<>>))},
           {EmptyMap})

SessionHeaders == {Str(Bearer(TokenOf(i))) : i \in 1..(MaxLogins + 1)}

NextSessions ==
  \/ LoadData
  \/ \E d \in {1, SessionTTL} : Tick(d)
  \/ \E route \in {"login", "chat"} : Idle /\ Arrive(route)
  \/ \E req \in {LoginOk, LoginWrongPassword} : LoginEnd(req)
  \/ ConsoleLoggedIn
  \/ ConsoleLogout
  \/ \E route \in AdminRoutes : Idle /\ ConsoleSubmit(route)
  \/ \E route \in AdminRoutes, auth \in SessionHeaders : Idle /\ AdminArrive(route, auth)
  \/ AddFaqEnd(EmptyReq, "ok")
  \/ UploadEnd(EmptyReq, HexC0ffee, HexCafe, "ok", "ok", "ok")
  \/ ChatEnd(ChatNoMatch)
  \/ Idle /\ LocalesGet(En)
  \/ \E c \in BagToSet(inflight) : ReadDone(c)
  \/ FaqsGet
  \/ GalleryGet

SpecSessions == InitSessions /\ [][NextSessions]_vars

\* The step is an add-faq or upload-image request arriving with this token
presented(tok) ==
  ev'.op = "auth" /\ ev'.route \in AdminRoutes /\ ev'.auth = Str(Bearer(tok))

\* More than 24 hours have passed since the session was created or last accepted
expired(tok) == now - hist.lastOk[tok] > SessionTTL

\* C21: a session leaves the registry only in the step where its own expired token
\* is presented to add-faq or upload-image, and is altered only in a step where its
\* own token is presented; no other request and no logout at the console touches
\* it, so an unexpired token authenticates whatever the console has done, and an
\* expired token that is not presented stays in the registry.
C21_SessionsRemovedLazily ==
  [][\A tok \in DOMAIN sessions :
       /\ tok \notin DOMAIN sessions' => presented(tok) /\ expired(tok)
       /\ tok \in DOMAIN sessions' /\ sessions'[tok] # sessions[tok] => presented(tok)
       /\ presented(tok) /\ ~expired(tok) => ev'.status = 0 /\ tok \in DOMAIN sessions'
       /\ ~presented(tok) /\ expired(tok) => tok \in DOMAIN sessions']_vars

\* The console has logged out, and later than that the token it had authenticates
C21_Witness ==
  /\ localStorage = Null
  /\ ev.op = "auth" /\ ev.status = 0 /\ ev.elapsed = {1}
  /\ \E tok \in hist.issued :
       ev.auth = Str(Bearer(tok)) /\ tok \in DOMAIN sessions

(***************************************************************************)
(* SpecConsole: an admin works through the console: login, the FAQ form,   *)
(* the gallery form with PNG and JPEG files, logout.                       *)
(***************************************************************************)
ImageFile(mime, base64) == [type |-> ImageType \o mime, base64 |-> base64]
ConsoleFiles ==
  {ImageFile(mime, base64) : mime \in {PngChars, JpegChars},
                             base64 \in {Payload, <<"/", "9", "j", "=">>}}

ConsoleFaqFields == {<<SP>>, <<SP>> \o QAb, Ay}

InitConsole ==
  InitWith({File(stringifyFaqs(<<>>))}, {File(stringifyGallery(<<>>))}, {EmptyMap})

NextConsole ==
  \/ LoadData
  \/ Idle /\ Arrive("login")
  \/ LoginEnd(LoginOk)
  \/ ConsoleLoggedIn
  \/ ConsoleLogout
  \/ \E route \in AdminRoutes : Idle /\ ConsoleSubmit(route)
  \/ \E q \in ConsoleFaqFields, a \in ConsoleFaqFields :
       \E req \in faqFormReqs(q, a) : AddFaqEnd(req, "ok")
  \/ \E b \in ConsoleFiles, a \in ConsoleFiles :
       UploadEnd(galleryFormReq(b, a), HexC0ffee, HexCafe, "ok", "ok", "ok")
  \/ GalleryGet

SpecConsole == InitConsole /\ [][NextConsole]_vars

\* C23: the images the console sends to upload-image are
\* data:image/(png|jpeg);base64,<payload> URIs, the form the ingestion accepts, so a
\* logged-in admin who submits two PNG or JPEG files gets 200 and a new gallery entry.
C23_ConsoleUploadAccepted ==
  ev.op = "upload" =>
    /\ decodes(ev.req, "before") /\ decodes(ev.req, "after")
    /\ ev.status = 200
    /\ gallery # <<>> /\ Last(gallery) = ev.entry

(***************************************************************************)
(* SpecLocales: locale lookups while the locale documents are edited,      *)
(* deleted and restored on disk.                                           *)
(***************************************************************************)
Constructor == <<"constructor">>
LocaleCodes == {En, Fr, Constructor}
LocaleDocuments == {MissingLocale, CorruptLocale, LocaleDoc(LocaleEn), LocaleDoc(LocaleFr)}

\* data/locales/<lang>.json is written, damaged or deleted by whoever maintains it
LocaleFileChanged(lang, file) ==
  /\ readLocale(localeFiles, lang) # file
  /\ localeFiles' = putKey(localeFiles, lang, file)
  /\ ev' = [op |-> "locale-file", lang |-> lang]
  /\ UNCHANGED <<phase, now, storeVars, authVars, localStorage, localesCache, inflight,
                 indices, hist>>

ChatInFrench == JsonReq(Object([question |-> Str(<<"z">>), lang |-> Str(Fr)]))

InitLocales ==
  InitWith({File(stringifyFaqs(<<>>))}, {NoFile},
           {[l \in {En, Fr} |-> IF l = En THEN en ELSE fr] :
              en \in {MissingLocale, LocaleDoc(LocaleEn)}, fr \in {MissingLocale, CorruptLocale}})

NextLocales ==
  \/ LoadData
  \/ \E lang \in LocaleCodes : Idle /\ LocalesGet(lang)
  \/ Idle /\ Arrive("chat")
  \/ ChatEnd(ChatInFrench)
  \/ \E c \in BagToSet(inflight) : ReadDone(c)
  \/ \E lang \in LocaleCodes, file \in LocaleDocuments : Idle /\ LocaleFileChanged(lang, file)

SpecLocales == InitLocales /\ [][NextLocales]_vars

\* The step stores something under lang in the cache
cachedNow(lang) ==
  /\ lang \in DOMAIN localesCache'
  /\ lang \notin DOMAIN localesCache \/ localesCache'[lang] # localesCache[lang]

\* The step is GET /api/locales/<lang> arriving
lookedUp(lang) == ev'.op = "locales" /\ ev'.step = "end" /\ ev'.req = lang

\* The reads of the document of lang that the step completes for a request for lang
ownReadsDone(lang) ==
  {c \in BagToSet(inflight) :
     /\ CopiesIn(c, inflight') < CopiesIn(c, inflight)
     /\ c.k = "read" /\ c.lang = lang /\ c.for = "locales" /\ c.req = lang}

\* C24: the cache gets, under a language code, only the mapping parsed from that
\* language's own document; a failed load stores nothing, so a request for a
\* language that is not in the cache reads its document again, and gets (and caches)
\* the document's mapping as soon as the document is readable.
C24_OnlyOwnDocumentCached ==
  [][\A lang \in LocaleCodes :
       /\ cachedNow(lang) =>
            /\ readLocale(localeFiles, lang).state = "ok"
            /\ localesCache'[lang] = readLocale(localeFiles, lang).map
       /\ lookedUp(lang) /\ lang \notin DOMAIN localesCache =>
            /\ ev'.status = 0
            /\ \E c \in BagToSet(inflight') : c.k = "read" /\ c.lang = lang
       /\ ownReadsDone(lang) # {} /\ readLocale(localeFiles, lang).state = "ok" =>
            /\ ev'.out = readLocale(localeFiles, lang).map
            /\ lang \in DOMAIN localesCache'
            /\ localesCache'[lang] = ev'.out]_vars

\* The reads of getLocale whose callback runs in the step
readsDone ==
  {c \in BagToSet(inflight) : c.k = "read" /\ CopiesIn(c, inflight') < CopiesIn(c, inflight)}

\* The document of lang as it is on disk
documentOf(lang) ==
  IF lang \in DOMAIN localeFiles THEN localeFiles[lang] ELSE [state |-> "missing"]

\* The step resolves the locale object of the request of c with the mapping
resolvedWith(c, mapping) ==
  /\ ev'.status = 200 /\ ev'.req = c.req /\ ev'.op = c.for
  /\ mapping = IF c.for = "chat" THEN ev'.locale ELSE ev'.out

\* The step passes the request of c on to getLocale('en'): resolved from the cache,
\* or suspended on the read of the English document
resolvedByEnglish(c) ==
  IF En \in DOMAIN localesCache
    THEN resolvedWith(c, localesCache[En])
  ELSE /\ ev'.status = 0
       /\ CopiesIn([c EXCEPT !.lang = En], inflight') > CopiesIn([c EXCEPT !.lang = En], inflight)

\* What getLocale does when the read of c's document ends, the documents in
\* fallsBack being those after which it goes on to English
readResolves(c, fallsBack) ==
  LET doc == documentOf(c.lang)
  IN  IF doc.state = "ok" THEN resolvedWith(c, doc.map)
      ELSE IF doc.state \in fallsBack /\ c.lang # En THEN resolvedByEnglish(c)
      ELSE resolvedWith(c, [t |-> "object", f |-> <<>>])

\* C19 as claimed: getLocale(lang) resolves after at most one recursive call: with
\* the mapping of lang's document if that is read and parsed; with the result of
\* getLocale('en') if reading or parsing fails and lang is not 'en'; with the empty
\* mapping if lang is 'en' and its document fails.
C19_FallsBackOnAnyFailure ==
  [][\A c \in readsDone : readResolves(c, {"missing", "corrupt"})]_vars

\* C19 amended: as above, except that only a document that cannot be read sends
\* getLocale on to 'en'; when lang's document is read but cannot be parsed the
\* result is the empty mapping, whatever lang is.
C19_FallsBackWhenUnreadable ==
  [][\A c \in readsDone : readResolves(c, {"missing"})]_vars

\* The French document was missing and the English one has just been read for the
\* same request, which is answered with the English mapping
C19_Witness ==
  /\ ev.op = "locales" /\ ev.step = "read" /\ ev.req = Fr /\ ev.status = 200
  /\ ev.out = LocaleEn
  /\ Fr \notin DOMAIN localesCache /\ En \in DOMAIN localesCache
  /\ documentOf(Fr).state = "missing"

(***************************************************************************)
(* SpecLocalesRace: locale lookups that overlap, while the documents are   *)
(* edited, deleted and restored on disk.                                   *)
(***************************************************************************)
NextLocalesRace ==
  \/ LoadData
  \/ \E lang \in {En, Fr} : LocalesGet(lang)
  \/ \E c \in BagToSet(inflight) : ReadDone(c)
  \/ \E lang \in {En, Fr}, file \in LocaleDocuments : LocaleFileChanged(lang, file)

SpecLocalesRace == InitLocales /\ [][NextLocalesRace]_vars

\* The step is a request arriving that asks getLocale for lang
askedFor(lang) == ev'.op = "locales" /\ ev'.step = "end" /\ ev'.req = lang

\* The step answers a request for lang with what the cache holds, and reads nothing
servedFromCache(lang) ==
  /\ ev'.status = 200
  /\ ev'.out = localesCache[lang]
  /\ inflight' = inflight

\* A read of the document of lang is awaiting its callback
readPending(lang) == \E c \in BagToSet(inflight) : c.k = "read" /\ c.lang = lang

\* C20 as claimed: once lang's document has been loaded, every later getLocale(lang)
\* returns that same cached mapping without reading the document, under any
\* interleaving of requests: the cached mapping never changes, whatever happens to
\* the document.
C20_CacheNeverChanges ==
  [][\A lang \in DOMAIN localesCache :
       /\ lang \in DOMAIN localesCache' /\ localesCache'[lang] = localesCache[lang]
       /\ askedFor(lang) => servedFromCache(lang)]_vars

\* C20 amended: once lang's document has been loaded, every getLocale(lang) called
\* later returns the cached mapping without reading the document, and the entry is
\* never removed; the cached mapping changes only when a read of lang's document
\* that was started before the load completes after it, storing what it read.
C20_CacheKeptOnceLoaded ==
  [][\A lang \in DOMAIN localesCache :
       /\ lang \in DOMAIN localesCache'
       /\ localesCache'[lang] # localesCache[lang] =>
            /\ \E c \in readsDone : c.lang = lang
            /\ localesCache'[lang] = documentOf(lang).map
       /\ ~readPending(lang) => localesCache'[lang] = localesCache[lang]
       /\ askedFor(lang) => servedFromCache(lang)]_vars

\* The French document has been deleted after it was loaded, no read is pending,
\* and a request for French is answered with the mapping loaded from it
C20_Witness ==
  /\ ev.op = "locales" /\ ev.step = "end" /\ ev.req = Fr /\ ev.status = 200
  /\ ev.out = LocaleFr /\ localesCache[Fr] = LocaleFr
  /\ documentOf(Fr).state = "missing"
  /\ inflight = EmptyBag

====
